---- MODULE Spec2Model ----
(***************************************************************************)
(* Heads-up no-limit poker engine (jnalanko/Hu4Rolls-2).                   *)
(*                                                                         *)
(* Street (street.rs) is one betting round, Hand (hand.rs) sequences the   *)
(* streets of one hand, Game (game.rs) owns the current hand and the       *)
(* button seat, client_msg (ws.rs) is the websocket handler that locks the *)
(* client table and the game table around a call into the Game.            *)
(*                                                                         *)
(* All amounts are u64 in the source.  An arithmetic operation that leaves *)
(* the u64 range panics in a build with overflow checks ("debug") and      *)
(* wraps in a build without them ("release").  The build is fixed when the *)
(* program is compiled; the model resolves it at the first operation that  *)
(* overflows, where it first makes a difference.  The word modulus is      *)
(* scaled down to U64Modulus.                                              *)
(***************************************************************************)
EXTENDS Integers, Sequences, FiniteSets, TLC

VARIABLES
    build,          \* "debug" (overflow panics), "release" (overflow wraps), or
                    \* "unknown" while no operation has overflowed yet
    button_seat,    \* Game.button_seat
    current_hand,   \* Game.current_hand
    ret,            \* what the last call of Game::submit_action returned
    hands_dealt,    \* number of hands dealt so far in this session
    off_menu,       \* number of PostBlind actions sent that the menu did not offer
    overflows,      \* number of calls in which a u64 operation overflowed
    pc,             \* per client: where its client_msg task stands
    message,        \* per client: the message its client_msg task handles
    turn_ok,        \* per client: what the turn check of its action found
    hand_result,    \* per client: the hand_result its client_msg holds
    clients_lock,   \* the holder of the write lock of the client table
    games_lock,     \* the holder of the write lock of the game table
    received,       \* number of websocket messages received so far
    sent,           \* the last message sent to the clients, and to whom
    test_street,    \* a Street driven on its own, as the tests of street.rs do
    test_result,    \* what the last call of Street::submit_action on it returned
    games,          \* the game table: the Game registered under each id
    create_pc,      \* per create_game request: where its handler stands
    create_body,    \* per create_game request: the CreateGameRequest
    create_reply    \* per create_game request: the message it was answered

gamevars == <<build, button_seat, current_hand, ret, hands_dealt, off_menu,
              overflows>>
wsvars == <<pc, message, turn_ok, hand_result, clients_lock, games_lock, received,
           sent>>
streetvars == <<test_street, test_result>>
createvars == <<games, create_pc, create_body, create_reply>>
vars == <<gamevars, wsvars, streetvars, createvars>>

----------------------------------------------------------------------------
(* Bounds of the model *)

\* largest stack a session is created with
MaxStack == 4
\* largest amount a client puts into an action
MaxAmount == MaxStack + 1
\* longest action list of one street
MaxStreetActions == 5
\* hands played to their end in one session
MaxHands == 1
\* actions followed in the hand dealt after the last of them
MaxTailActions == 2
\* PostBlind actions outside the menu that the clients send in one session
MaxOffMenu == 1
\* calls with an overflowing u64 operation after which the session is followed
MaxOverflows == 1

\* hands played to their end in the session of the tests
MaxTestHands == 2

\* largest stack of a Street driven on its own
MaxStreetStack == 8
\* websocket messages received in one run of the server
MaxMessages == 4
\* create_game requests handled in one run of the server
MaxCreateRequests == 2

\* scaled modulus of the u64 arithmetic
U64Modulus == 4096

\* small blind of the session
SbSize == 1

----------------------------------------------------------------------------
(* common.rs *)

Position == {"Button", "BigBlind"}

other_player(player) == IF player = "Button" THEN "BigBlind" ELSE "Button"

Max(a, b) == IF a >= b THEN a ELSE b
Min(a, b) == IF a <= b THEN a ELSE b

----------------------------------------------------------------------------
(* u64 arithmetic: the value the release build computes, and whether the   *)
(* debug build panics on it                                                *)

Wrap(x) == ((x % U64Modulus) + U64Modulus) % U64Modulus
Overflows(x) == x < 0 \/ x >= U64Modulus

----------------------------------------------------------------------------
(* street.rs: Action, ActionOption, ActionResult *)

Fold == [kind |-> "Fold", amount |-> 0]
Check == [kind |-> "Check", amount |-> 0]
PostBlind(a) == [kind |-> "PostBlind", amount |-> a]
Call(a) == [kind |-> "Call", amount |-> a]
Bet(a) == [kind |-> "Bet", amount |-> a]
Raise(a) == [kind |-> "Raise", amount |-> a]

OptFold == [kind |-> "Fold", min |-> 0, max |-> 0]
OptCheck == [kind |-> "Check", min |-> 0, max |-> 0]
OptPostBlind(a) == [kind |-> "PostBlind", min |-> a, max |-> a]
OptCall(a) == [kind |-> "Call", min |-> a, max |-> a]
OptBet(lo, hi) == [kind |-> "Bet", min |-> lo, max |-> hi]
OptRaise(lo, hi) == [kind |-> "Raise", min |-> lo, max |-> hi]

\* Street::new
Street_new(street, min_open_raise, btn_start_stack, bb_start_stack) ==
    [street |-> street,
     actions |-> <<>>,
     min_open_raise |-> min_open_raise,
     btn_start_stack |-> btn_start_stack,
     bb_start_stack |-> bb_start_stack,
     btn_stack |-> btn_start_stack,
     bb_stack |-> bb_start_stack]

\* fault injection: get_first_to_act that lets the Button open every street
get_first_to_act_button(s) == "Button"

\* Street::get_first_to_act
get_first_to_act(s) == IF s.street = "Preflop" THEN "Button" ELSE "BigBlind"

\* fault injection: StatusStep whose Raise doubles the amount like a Bet
StatusStep_raise_doubles(st, action) ==
    LET amount == action.amount
        put(x) == IF st.active = "Button" THEN [st EXCEPT !.btn = x]
                                           ELSE [st EXCEPT !.bb = x]
        after ==
            CASE action.kind \in {"Fold", "Check"} -> st
              [] action.kind = "Call" -> put(amount)
              [] OTHER -> [put(amount) EXCEPT !.min = Wrap(2 * amount)]
    IN [after EXCEPT !.active = other_player(st.active)]

\* One iteration of the replay loop of Street::get_street_status.
\* st = [btn, bb, min, active, ovf]; ovf records that a u64 operation left
\* the range (a panic in the debug build).
StatusStep(st, action) ==
    LET bigger == Max(st.btn, st.bb)
        amount == action.amount
        put(x) == IF st.active = "Button" THEN [st EXCEPT !.btn = x]
                                           ELSE [st EXCEPT !.bb = x]
        after ==
            CASE action.kind \in {"Fold", "Check"} -> st
              [] action.kind = "Call" -> put(amount)
              [] action.kind \in {"PostBlind", "Bet"} ->
                    [put(amount) EXCEPT !.min = Wrap(2 * amount),
                                        !.ovf = st.ovf \/ Overflows(2 * amount)]
              [] action.kind = "Raise" ->
                    LET raise_by == Wrap(amount - bigger)
                    IN [put(amount) EXCEPT
                          !.min = Wrap(bigger + Wrap(2 * raise_by)),
                          !.ovf = \/ st.ovf
                                  \/ Overflows(amount - bigger)
                                  \/ Overflows(2 * raise_by)
                                  \/ Overflows(bigger + Wrap(2 * raise_by))]
    IN [after EXCEPT !.active = other_player(st.active)]

RECURSIVE Replay(_, _, _)
Replay(st, actions, i) ==
    IF i > Len(actions) THEN st
    ELSE Replay(StatusStep(st, actions[i]), actions, i + 1)

\* Street::get_street_status
get_street_status(s) ==
    Replay([btn |-> 0, bb |-> 0, min |-> s.min_open_raise,
            active |-> get_first_to_act(s), ovf |-> FALSE],
           s.actions, 1)

\* fault injection: the menu whose Call is not capped at the stack of the
\* caller
Menu_call_uncapped(s, st) ==
    LET active_player_stack ==
            IF st.active = "Button" THEN s.btn_stack ELSE s.bb_stack
        active_player_initial_stack ==
            IF st.active = "Button" THEN s.btn_start_stack ELSE s.bb_start_stack
        bigger == Max(st.btn, st.bb)
    IN  <<OptFold>>
        \o (IF st.btn = 0 /\ st.bb = 0
              THEN <<OptBet(st.min, active_player_stack)>> ELSE <<>>)
        \o (IF st.btn # st.bb THEN <<OptCall(bigger)>> ELSE <<>>)
        \o (IF Wrap(st.btn + st.bb) > 0 /\ active_player_stack > bigger
              THEN <<OptRaise(st.min, active_player_initial_stack)>> ELSE <<>>)
        \o (IF st.btn = st.bb THEN <<OptCheck>> ELSE <<>>)

\* fault injection: the menu that offers the Raise on the stack the active
\* player started the street with
Menu_raise_on_start_stack(s, st) ==
    LET active_player_stack ==
            IF st.active = "Button" THEN s.btn_stack ELSE s.bb_stack
        active_player_initial_stack ==
            IF st.active = "Button" THEN s.btn_start_stack ELSE s.bb_start_stack
        bigger == Max(st.btn, st.bb)
    IN  <<OptFold>>
        \o (IF st.btn = 0 /\ st.bb = 0
              THEN <<OptBet(st.min, active_player_stack)>> ELSE <<>>)
        \o (IF st.btn # st.bb
              THEN <<OptCall(Min(bigger, active_player_initial_stack))>> ELSE <<>>)
        \o (IF Wrap(st.btn + st.bb) > 0 /\ active_player_initial_stack > bigger
              THEN <<OptRaise(st.min, active_player_initial_stack)>> ELSE <<>>)
        \o (IF st.btn = st.bb THEN <<OptCheck>> ELSE <<>>)

\* fault injection: the menu whose Raise ends at the chips the active player
\* has left
Menu_raise_max_remaining(s, st) ==
    LET active_player_stack ==
            IF st.active = "Button" THEN s.btn_stack ELSE s.bb_stack
        active_player_initial_stack ==
            IF st.active = "Button" THEN s.btn_start_stack ELSE s.bb_start_stack
        bigger == Max(st.btn, st.bb)
    IN  <<OptFold>>
        \o (IF st.btn = 0 /\ st.bb = 0
              THEN <<OptBet(st.min, active_player_stack)>> ELSE <<>>)
        \o (IF st.btn # st.bb
              THEN <<OptCall(Min(bigger, active_player_initial_stack))>> ELSE <<>>)
        \o (IF Wrap(st.btn + st.bb) > 0 /\ active_player_stack > bigger
              THEN <<OptRaise(st.min, active_player_stack)>> ELSE <<>>)
        \o (IF st.btn = st.bb THEN <<OptCheck>> ELSE <<>>)

\* fault injection: the menu in which a Bet is offered whenever the two
\* contributions are equal
Menu_bet_when_equal(s, st) ==
    LET active_player_stack ==
            IF st.active = "Button" THEN s.btn_stack ELSE s.bb_stack
        active_player_initial_stack ==
            IF st.active = "Button" THEN s.btn_start_stack ELSE s.bb_start_stack
        bigger == Max(st.btn, st.bb)
    IN  <<OptFold>>
        \o (IF st.btn = st.bb
              THEN <<OptBet(st.min, active_player_stack)>> ELSE <<>>)
        \o (IF st.btn # st.bb
              THEN <<OptCall(Min(bigger, active_player_initial_stack))>> ELSE <<>>)
        \o (IF Wrap(st.btn + st.bb) > 0 /\ active_player_stack > bigger
              THEN <<OptRaise(st.min, active_player_initial_stack)>> ELSE <<>>)
        \o (IF st.btn = st.bb THEN <<OptCheck>> ELSE <<>>)

\* Street::get_available_actions once the blinds are in: the menu, in the
\* order the code pushes it, from the replayed status st
Menu(s, st) ==
    LET active_player_stack ==
            IF st.active = "Button" THEN s.btn_stack ELSE s.bb_stack
        active_player_initial_stack ==
            IF st.active = "Button" THEN s.btn_start_stack ELSE s.bb_start_stack
        bigger == Max(st.btn, st.bb)
    IN  <<OptFold>>
        \o (IF st.btn = 0 /\ st.bb = 0
              THEN <<OptBet(st.min, active_player_stack)>> ELSE <<>>)
        \o (IF st.btn # st.bb
              THEN <<OptCall(Min(bigger, active_player_initial_stack))>> ELSE <<>>)
        \o (IF Wrap(st.btn + st.bb) > 0 /\ active_player_stack > bigger
              THEN <<OptRaise(st.min, active_player_initial_stack)>> ELSE <<>>)
        \o (IF st.btn = st.bb THEN <<OptCheck>> ELSE <<>>)

\* fault injection: get_available_actions without the blind phase of Preflop
get_available_actions_no_blinds(s) == Menu(s, get_street_status(s))

\* Street::get_available_actions
get_available_actions(s) ==
    IF s.street = "Preflop" /\ Len(s.actions) = 0
        THEN <<OptPostBlind(s.min_open_raise \div 2)>>
    ELSE IF s.street = "Preflop" /\ Len(s.actions) = 1
        THEN <<OptPostBlind(s.min_open_raise)>>
    ELSE Menu(s, get_street_status(s))

\* whether the replay or the sum of the two contributions overflowed
StatusOverflows(st) == st.ovf \/ Overflows(st.btn + st.bb)

\* whether computing the menu panics in the debug build
MenuPanics(s) ==
    /\ ~(s.street = "Preflop" /\ Len(s.actions) < 2)
    /\ StatusOverflows(get_street_status(s))

Contains(seq, x) == \E i \in 1..Len(seq) : seq[i] = x

\* the match of Street::is_valid_action on the action
Matches(available_actions, action) ==
    CASE action.kind = "Fold" -> Contains(available_actions, OptFold)
      [] action.kind = "Check" -> Contains(available_actions, OptCheck)
      [] action.kind = "Call" ->
            Contains(available_actions, OptCall(action.amount))
      [] action.kind = "PostBlind" -> TRUE
      [] action.kind = "Bet" ->
            \E i \in 1..Len(available_actions) :
                /\ available_actions[i].kind = "Bet"
                /\ action.amount >= available_actions[i].min
                /\ action.amount <= available_actions[i].max
      [] action.kind = "Raise" ->
            \E i \in 1..Len(available_actions) :
                /\ available_actions[i].kind = "Raise"
                /\ action.amount >= available_actions[i].min
                /\ action.amount <= available_actions[i].max

\* Street::is_valid_action
is_valid_action(s, action) == Matches(get_available_actions(s), action)

\* the player of an ActionResult other than Fold
NoPlayer == "None"

\* fault injection: Street::submit_action that pushes the action before it
\* validates it
Street_submit_action_push_first(s, action, b) ==
    LET active_player == get_street_status(s).active
        pushed == [s EXCEPT !.actions = Append(s.actions, action)]
        after == get_street_status(pushed)
        done == [pushed EXCEPT
                   !.btn_stack = Wrap(s.btn_start_stack - after.btn),
                   !.bb_stack = Wrap(s.bb_start_stack - after.bb)]
        result ==
            CASE action.kind = "Fold" -> "Fold"
              [] action.kind = "Check" ->
                    IF active_player = get_first_to_act(s) THEN "BettingOpen"
                                                           ELSE "BettingClosed"
              [] action.kind = "Call" ->
                    IF /\ s.street = "Preflop"
                       /\ active_player = "Button"
                       /\ action.amount = s.min_open_raise
                    THEN "BettingOpen" ELSE "BettingClosed"
              [] OTHER -> "BettingOpen"
    IN  IF ~is_valid_action(s, action)
            THEN [street |-> pushed, result |-> "Invalid action",
                  player |-> NoPlayer, panic |-> FALSE]
            ELSE [street |-> done, result |-> result,
                  player |-> IF result = "Fold" THEN active_player
                                                ELSE NoPlayer,
                  panic |-> FALSE]

\* what Street::submit_action gives: the street after the call, the result
\* ("Invalid action" | "BettingOpen" | "BettingClosed" | "Fold" | "Panic"),
\* the player who folded, and whether the call panicked
StreetOut(st, r, pl, pan) ==
    [street |-> st, result |-> r, player |-> pl, panic |-> pan]

\* fault injection: the match on the action without the limp exception, so
\* that every Call closes the betting
action_result_limp_closes(s, action, active_player) ==
    CASE action.kind = "Fold" -> "Fold"
      [] action.kind = "Check" ->
            IF active_player = other_player(get_first_to_act(s))
                THEN "BettingClosed" ELSE "BettingOpen"
      [] action.kind = "Call" -> "BettingClosed"
      [] OTHER -> "BettingOpen"

\* fault injection: the match on the action in which the Check of the first
\* to act closes the betting
action_result_first_check_closes(s, action, active_player) ==
    CASE action.kind = "Fold" -> "Fold"
      [] action.kind = "Check" ->
            IF active_player = get_first_to_act(s)
                THEN "BettingClosed" ELSE "BettingOpen"
      [] action.kind = "Call" ->
            IF /\ s.street = "Preflop"
               /\ active_player = "Button"
               /\ action.amount = s.min_open_raise
            THEN "BettingOpen" ELSE "BettingClosed"
      [] OTHER -> "BettingOpen"

\* the ActionResult Street::submit_action computes for a valid action
action_result(s, action, active_player) ==
    CASE action.kind = "Fold" -> "Fold"
      [] action.kind = "Check" ->
            IF active_player = other_player(get_first_to_act(s))
                THEN "BettingClosed" ELSE "BettingOpen"
      [] action.kind = "Call" ->
            IF /\ s.street = "Preflop"
               /\ active_player = "Button"
               /\ action.amount = s.min_open_raise
            THEN "BettingOpen" ELSE "BettingClosed"
      [] OTHER -> "BettingOpen"

\* Street::submit_action on a valid action.  before and after are the status
\* replayed before and after the action is pushed.  A panic of the debug
\* build leaves what was assigned before it.
push_action(s, action, b, before, after) ==
    LET pushed == [s EXCEPT !.actions = Append(s.actions, action)]
        result == action_result(s, action, before.active)
        btn_left == s.btn_start_stack - after.btn
        bb_left == s.bb_start_stack - after.bb
    IN  IF b = "debug" /\ before.ovf
            THEN StreetOut(s, "Panic", NoPlayer, TRUE)
        ELSE IF b = "debug" /\ (after.ovf \/ Overflows(btn_left))
            THEN StreetOut(pushed, "Panic", NoPlayer, TRUE)
        ELSE IF b = "debug" /\ Overflows(bb_left)
            THEN StreetOut([pushed EXCEPT !.btn_stack = btn_left],
                           "Panic", NoPlayer, TRUE)
        ELSE StreetOut([pushed EXCEPT !.btn_stack = Wrap(btn_left),
                                      !.bb_stack = Wrap(bb_left)],
                       result,
                       IF result = "Fold" THEN before.active ELSE NoPlayer,
                       FALSE)

\* Street::submit_action.  b is the build.
Street_submit_action(s, action, b) ==
    IF b = "debug" /\ MenuPanics(s)
        THEN StreetOut(s, "Panic", NoPlayer, TRUE)
    ELSE IF ~is_valid_action(s, action)
        THEN StreetOut(s, "Invalid action", NoPlayer, FALSE)
    ELSE push_action(s, action, b, get_street_status(s),
                     get_street_status(
                         [s EXCEPT !.actions = Append(s.actions, action)]))

----------------------------------------------------------------------------
(* Cards, the shuffled deck and the evaluator of the poker crate.  A card  *)
(* is rank * 4 + suit; the decks are the ones the tests of game.rs rig     *)
(* (cards are popped from the end of the deck).                            *)

Card(rank, suit) == rank * 4 + suit
CardRank(c) == c \div 4

\* both players hold a pair of eights, the board holds the nine: a split
DeckSplit ==
    <<Card(9, 0), Card(3, 0), Card(4, 0), Card(5, 0), Card(6, 0),
      Card(8, 1), Card(8, 2), Card(8, 3), Card(8, 0)>>
\* the Button is dealt the kings, the BigBlind the aces
DeckBigBlindWins ==
    <<Card(2, 0), Card(4, 1), Card(6, 2), Card(8, 2), Card(10, 0),
      Card(14, 1), Card(14, 2), Card(13, 3), Card(13, 0)>>
\* the Button is dealt the aces, the BigBlind the kings
DeckButtonWins ==
    <<Card(2, 0), Card(4, 1), Card(6, 2), Card(8, 2), Card(10, 0),
      Card(13, 3), Card(13, 0), Card(14, 1), Card(14, 2)>>

\* Card::generate_shuffled_deck
Decks == {DeckSplit, DeckBigBlindWins, DeckButtonWins}

RECURSIVE MaxRank(_, _)
MaxRank(cards, i) ==
    IF i > Len(cards) THEN 0
    ELSE Max(CardRank(cards[i]), MaxRank(cards, i + 1))

\* Evaluator::evaluate: a total preorder on card lists (higher is better)
Evaluate(cards) == MaxRank(cards, 1)

----------------------------------------------------------------------------
(* hand.rs *)

Last(seq) == seq[Len(seq)]

\* Hand::new: two cards popped for the Button, two for the BigBlind, a
\* Preflop street with no action in it
Hand_new(deck, btn_stack, bb_stack, sb_size) ==
    LET n == Len(deck)
    IN  [btn_hole_cards |-> <<deck[n], deck[n - 1]>>,
         bb_hole_cards |-> <<deck[n - 2], deck[n - 3]>>,
         board_cards |-> <<>>,
         deck |-> SubSeq(deck, 1, n - 4),
         sb_size |-> sb_size,
         btn_start_stack |-> btn_stack,
         btn_stack |-> btn_stack,
         bb_start_stack |-> bb_stack,
         bb_stack |-> bb_stack,
         pot |-> 0,
         streets |-> <<Street_new("Preflop", Wrap(2 * sb_size),
                                  btn_stack, bb_stack)>>]

\* Hand::run_showdown: the Showdown record and the winner ("None": split)
run_showdown(h) ==
    LET btn_hand_eval == Evaluate(h.btn_hole_cards \o h.board_cards)
        bb_hand_eval == Evaluate(h.bb_hole_cards \o h.board_cards)
    IN  [showdown |-> [btn_eval |-> btn_hand_eval,
                       bb_eval |-> bb_hand_eval,
                       btn_hole_cards |-> h.btn_hole_cards,
                       bb_hole_cards |-> h.bb_hole_cards],
         winner |-> IF btn_hand_eval > bb_hand_eval THEN "Button"
                    ELSE IF bb_hand_eval > btn_hand_eval THEN "BigBlind"
                    ELSE "None"]

\* fault injection: goto_next_street that deals one card on every street
goto_next_street_one_card(h) ==
    LET street_name == Last(h.streets).street
        n == Len(h.deck)
        next_street_name ==
            CASE street_name = "Preflop" -> "Flop"
              [] street_name = "Flop" -> "Turn"
              [] street_name = "Turn" -> "River"
    IN  [h EXCEPT
           !.board_cards = Append(h.board_cards, h.deck[n]),
           !.deck = SubSeq(h.deck, 1, n - 1),
           !.streets = Append(h.streets,
                              Street_new(next_street_name, Wrap(h.sb_size * 2),
                                         h.btn_stack, h.bb_stack))]

\* Hand::goto_next_street (called on Preflop, Flop and Turn only)
goto_next_street(h) ==
    LET street_name == Last(h.streets).street
        n == Len(h.deck)
        dealt == IF street_name = "Preflop" THEN 3 ELSE 1
        next_street_name ==
            CASE street_name = "Preflop" -> "Flop"
              [] street_name = "Flop" -> "Turn"
              [] street_name = "Turn" -> "River"
        popped == [i \in 1..dealt |-> h.deck[n + 1 - i]]
    IN  [h EXCEPT
           !.board_cards = h.board_cards \o popped,
           !.deck = SubSeq(h.deck, 1, n - dealt),
           !.streets = Append(h.streets,
                              Street_new(next_street_name, Wrap(h.sb_size * 2),
                                         h.btn_stack, h.bb_stack))]

\* one iteration of the loop of Hand::update_pot_and_stacks; st is the
\* status of the street
PotStep(acc, st) ==
    [pot |-> Wrap(acc.pot + Wrap(st.btn + st.bb)),
     btn |-> Wrap(acc.btn - st.btn),
     bb |-> Wrap(acc.bb - st.bb),
     ovf |-> \/ acc.ovf
             \/ st.ovf
             \/ Overflows(st.btn + st.bb)
             \/ Overflows(acc.pot + Wrap(st.btn + st.bb))
             \/ Overflows(acc.btn - st.btn)
             \/ Overflows(acc.bb - st.bb)]

\* the loop of Hand::update_pot_and_stacks over the streets
RECURSIVE PotLoop(_, _, _)
PotLoop(acc, streets, i) ==
    IF i > Len(streets) THEN acc
    ELSE PotLoop(PotStep(acc, get_street_status(streets[i])), streets, i + 1)

\* the assignments that end Hand::update_pot_and_stacks: nothing is assigned
\* when the loop panicked
apply_updates(h, b, acc) ==
    IF b = "debug" /\ acc.ovf
        THEN [hand |-> h, panic |-> TRUE]
        ELSE [hand |-> [h EXCEPT !.pot = acc.pot,
                                 !.btn_stack = acc.btn,
                                 !.bb_stack = acc.bb],
              panic |-> FALSE]

\* fault injection: update_pot_and_stacks without the assignment of bb_stack
update_pot_and_stacks_keeps_bb_stack(h, b) ==
    LET acc == PotLoop([pot |-> 0, btn |-> h.btn_start_stack,
                        bb |-> h.bb_start_stack, ovf |-> FALSE],
                       h.streets, 1)
    IN  IF b = "debug" /\ acc.ovf
            THEN [hand |-> h, panic |-> TRUE]
            ELSE [hand |-> [h EXCEPT !.pot = acc.pot,
                                     !.btn_stack = acc.btn],
                  panic |-> FALSE]

\* Hand::update_pot_and_stacks
update_pot_and_stacks(h, b) ==
    apply_updates(h, b,
                  PotLoop([pot |-> 0, btn |-> h.btn_start_stack,
                           bb |-> h.bb_start_stack, ovf |-> FALSE],
                          h.streets, 1))

\* fault injection: get_stacks_after_hand that pays the winner the winner's
\* own contribution
get_stacks_after_hand_own_added(h, winner) ==
    LET btn_added == h.btn_start_stack - h.btn_stack
        bb_added == h.bb_start_stack - h.bb_stack
    IN  CASE winner = "Button" ->
                [btn |-> Wrap(h.btn_start_stack + btn_added),
                 bb |-> Wrap(h.bb_start_stack - btn_added), ovf |-> FALSE]
          [] winner = "BigBlind" ->
                [btn |-> Wrap(h.btn_start_stack - bb_added),
                 bb |-> Wrap(h.bb_start_stack + bb_added), ovf |-> FALSE]
          [] OTHER ->
                [btn |-> h.btn_start_stack, bb |-> h.bb_start_stack,
                 ovf |-> FALSE]

\* fault injection: get_stacks_after_hand that leaves the stacks of a split
\* pot as they are at the end of the hand
get_stacks_after_hand_split_keeps_pot(h, winner) ==
    LET btn_added == h.btn_start_stack - h.btn_stack
        bb_added == h.bb_start_stack - h.bb_stack
    IN  CASE winner = "Button" ->
                [btn |-> Wrap(h.btn_start_stack + bb_added),
                 bb |-> Wrap(h.bb_start_stack - bb_added), ovf |-> FALSE]
          [] winner = "BigBlind" ->
                [btn |-> Wrap(h.btn_start_stack - btn_added),
                 bb |-> Wrap(h.bb_start_stack + btn_added), ovf |-> FALSE]
          [] OTHER ->
                [btn |-> h.btn_stack, bb |-> h.bb_stack, ovf |-> FALSE]

\* Hand::get_stacks_after_hand
get_stacks_after_hand(h, winner) ==
    LET btn_added == h.btn_start_stack - h.btn_stack
        bb_added == h.bb_start_stack - h.bb_stack
        btn_new ==
            CASE winner = "Button" -> h.btn_start_stack + Wrap(bb_added)
              [] winner = "BigBlind" -> h.btn_start_stack - Wrap(btn_added)
              [] OTHER -> h.btn_start_stack
        bb_new ==
            CASE winner = "Button" -> h.bb_start_stack - Wrap(bb_added)
              [] winner = "BigBlind" -> h.bb_start_stack + Wrap(btn_added)
              [] OTHER -> h.bb_start_stack
    IN  [btn |-> Wrap(btn_new), bb |-> Wrap(bb_new),
         ovf |-> \/ Overflows(btn_added) \/ Overflows(bb_added)
                 \/ Overflows(btn_new) \/ Overflows(bb_new)]

\* Result<Option<HandResult>, String>: kind is "Ok", "Err" or "Panic"; an
\* Option is a sequence of length 0 (None) or 1 (Some)
RetOk(res) == [kind |-> "Ok", msg |-> "", hand_result |-> res]
RetErr(e) == [kind |-> "Err", msg |-> e, hand_result |-> <<>>]
RetPanic == [kind |-> "Panic", msg |-> "", hand_result |-> <<>>]

HandResult(winner, btn_next, bb_next, showdown) ==
    [winner |-> winner,
     btn_next_hand_stack |-> btn_next,
     bb_next_hand_stack |-> bb_next,
     showdown |-> showdown]

\* what Hand::submit_action gives: the hand after the call and what the call
\* returns
HandOut(hand, r) == [hand |-> hand, ret |-> r]

\* the HandResult of a finished hand; stacks is what get_stacks_after_hand
\* returned
hand_result_of(updated, b, winner, showdown, stacks) ==
    IF b = "debug" /\ stacks.ovf
        THEN HandOut(updated, RetPanic)
        ELSE HandOut(updated,
                     RetOk(<<HandResult(winner, stacks.btn, stacks.bb,
                                        showdown)>>))

\* fault injection: the HandResult built without the Showdown record
finish_without_showdown(updated, b, winner, showdown) ==
    hand_result_of(updated, b, winner, <<>>,
                   get_stacks_after_hand(updated, winner))

\* the hand is over: winner and, after the river, the showdown
finish(updated, b, winner, showdown) ==
    hand_result_of(updated, b, winner, showdown,
                   get_stacks_after_hand(updated, winner))

\* the river closed: sd is what run_showdown returned
finish_showdown(updated, b, sd) ==
    finish(updated, b, sd.winner, <<sd.showdown>>)

\* fault injection: the match in which a closed round before the river is
\* not replaced by the next street
advance_keeps_street(updated, b, streetname, sub) ==
    CASE sub.result = "BettingClosed" ->
            IF streetname = "River"
                THEN finish_showdown(updated, b, run_showdown(updated))
                ELSE HandOut(updated, RetOk(<<>>))
      [] sub.result = "BettingOpen" -> HandOut(updated, RetOk(<<>>))
      [] sub.result = "Fold" ->
            finish(updated, b, other_player(sub.player), <<>>)
      [] OTHER -> HandOut(updated, RetErr(sub.result))

\* the match of Hand::submit_action on the result of the street
advance(updated, b, streetname, sub) ==
    CASE sub.result = "BettingClosed" ->
            IF streetname = "River"
                THEN finish_showdown(updated, b, run_showdown(updated))
                ELSE HandOut(goto_next_street(updated), RetOk(<<>>))
      [] sub.result = "BettingOpen" -> HandOut(updated, RetOk(<<>>))
      [] sub.result = "Fold" ->
            finish(updated, b, other_player(sub.player), <<>>)
      [] OTHER -> HandOut(updated, RetErr(sub.result))

\* Hand::submit_action after update_pot_and_stacks returned upd
pot_updated(applied, b, streetname, sub, upd) ==
    IF upd.panic THEN HandOut(applied, RetPanic)
                 ELSE advance(upd.hand, b, streetname, sub)

\* Hand::submit_action after street.submit_action returned sub; applied is
\* the hand with the street as the call left it
street_submitted(applied, b, streetname, sub) ==
    IF sub.panic
        THEN HandOut(applied, RetPanic)
        ELSE pot_updated(applied, b, streetname, sub,
                         update_pot_and_stacks(applied, b))

\* Hand::submit_action of a valid action; sub is what street.submit_action
\* returned
apply_action(h, b, sub) ==
    street_submitted([h EXCEPT !.streets[Len(h.streets)] = sub.street],
                     b, Last(h.streets).street, sub)

\* Hand::submit_action
Hand_submit_action(h, action, b) ==
    IF b = "debug" /\ MenuPanics(Last(h.streets))
        THEN HandOut(h, RetPanic)
    ELSE IF ~is_valid_action(Last(h.streets), action)
        THEN HandOut(h, RetErr("Invalid action"))
    ELSE apply_action(h, b, Street_submit_action(Last(h.streets), action, b))

----------------------------------------------------------------------------
(* game.rs *)

\* Game::new_with_stacks_and_sb
Game_new(deck, btn_stack, bb_stack, sb_size) ==
    [current_hand |-> Hand_new(deck, btn_stack, bb_stack, sb_size),
     button_seat |-> 0]

\* fault injection: the position of a seat with the button fixed at seat 0
player_position_fixed_button(g, seat) ==
    IF seat = 0 THEN "Button" ELSE "BigBlind"

\* the position a seat holds
player_position(g, seat) ==
    IF seat = g.button_seat THEN "Button" ELSE "BigBlind"

\* what Game::submit_action gives: the game after the call and what the call
\* returns
GameOut(g, r) == [game |-> g, ret |-> r]

\* fault injection: the next hand dealt with the stacks of the positions not
\* swapped
deal_next_hand_same_positions(g, deck, sub) ==
    IF sub.ret.kind = "Ok" /\ Len(sub.ret.hand_result) = 1
        THEN GameOut([current_hand |->
                          Hand_new(deck,
                                   sub.ret.hand_result[1].btn_next_hand_stack,
                                   sub.ret.hand_result[1].bb_next_hand_stack,
                                   g.current_hand.sb_size),
                      button_seat |-> 1 - g.button_seat],
                     sub.ret)
        ELSE GameOut([g EXCEPT !.current_hand = sub.hand], sub.ret)

\* Game::submit_action after Hand::submit_action returned sub: a finished
\* hand is replaced by a new one, dealt from deck with the stacks swapped,
\* and the button moves
deal_next_hand(g, deck, sub) ==
    IF sub.ret.kind = "Ok" /\ Len(sub.ret.hand_result) = 1
        THEN GameOut([current_hand |->
                          Hand_new(deck,
                                   sub.ret.hand_result[1].bb_next_hand_stack,
                                   sub.ret.hand_result[1].btn_next_hand_stack,
                                   g.current_hand.sb_size),
                      button_seat |-> 1 - g.button_seat],
                     sub.ret)
        ELSE GameOut([g EXCEPT !.current_hand = sub.hand], sub.ret)

\* Game::submit_action from the turn check on; st is the status of the
\* current street
check_turn(g, action, from_seat, deck, b, st) ==
    IF b = "debug" /\ st.ovf
        THEN GameOut(g, RetPanic)
    ELSE IF player_position(g, from_seat) # st.active
        THEN GameOut(g, RetErr("It is not your turn to act"))
    ELSE deal_next_hand(g, deck, Hand_submit_action(g.current_hand, action, b))

\* Game::submit_action.  deck is the freshly shuffled deck of the next hand.
Game_submit_action(g, action, from_seat, deck, b) ==
    check_turn(g, action, from_seat, deck, b,
               get_street_status(Last(g.current_hand.streets)))

\* fault injection: get_state_json that takes seat 0 for the button
get_state_json_fixed_button(g, for_seat) ==
    LET h == g.current_hand
        st == get_street_status(Last(h.streets))
    IN  [pot_size |-> h.pot,
         btn_stack |-> h.btn_stack,
         bb_stack |-> h.bb_stack,
         btn_added_chips_this_street |-> st.btn,
         bb_added_chips_this_street |-> st.bb,
         button_seat |-> g.button_seat,
         sb_size |-> h.sb_size,
         bb_size |-> Wrap(h.sb_size * 2),
         btn_hole_cards |-> IF for_seat = 0
                               THEN <<h.btn_hole_cards>> ELSE <<>>,
         bb_hole_cards |-> IF for_seat = 0
                              THEN <<>> ELSE <<h.bb_hole_cards>>,
         board_cards |-> h.board_cards,
         available_actions |-> get_available_actions(Last(h.streets)),
         active_player |-> st.active]

\* Game::get_state_json: the GameState that is serialized for for_seat
get_state_json(g, for_seat) ==
    LET h == g.current_hand
        st == get_street_status(Last(h.streets))
    IN  [pot_size |-> h.pot,
         btn_stack |-> h.btn_stack,
         bb_stack |-> h.bb_stack,
         btn_added_chips_this_street |-> st.btn,
         bb_added_chips_this_street |-> st.bb,
         button_seat |-> g.button_seat,
         sb_size |-> h.sb_size,
         bb_size |-> Wrap(h.sb_size * 2),
         btn_hole_cards |-> IF for_seat = g.button_seat
                               THEN <<h.btn_hole_cards>> ELSE <<>>,
         bb_hole_cards |-> IF for_seat = g.button_seat
                              THEN <<>> ELSE <<h.bb_hole_cards>>,
         board_cards |-> h.board_cards,
         available_actions |-> get_available_actions(Last(h.streets)),
         active_player |-> st.active]

----------------------------------------------------------------------------
(* The session: a Game created by create_game_handler and the calls of     *)
(* Game::submit_action made on it                                          *)

Amounts == 0..MaxAmount
\* the amounts of the PostBlind actions: the two blinds, one above every
\* stack, and one whose double leaves the u64 range
BlindAmounts == {SbSize, 2 * SbSize, MaxAmount, U64Modulus \div 2}

\* every Action a client can send
ActionInputs ==
    {Fold, Check}
    \cup {PostBlind(a) : a \in BlindAmounts}
    \cup {Call(a) : a \in Amounts}
    \cup {Bet(a) : a \in Amounts}
    \cup {Raise(a) : a \in Amounts}

Seats == {0, 1}

\* the stacks create_game_handler is asked for: below the big blind, and a
\* stack that can raise
StackChoices == {SbSize, MaxStack}

NoRet == [kind |-> "None", msg |-> "", hand_result |-> <<>>]

game == [current_hand |-> current_hand, button_seat |-> button_seat]

\* the websocket clients connected to the game, one for each seat; a client
\* is named by its seat
Clients == Seats

\* a lock is the set of the tasks that hold it
NoHolder == {}

\* Game::new_with_stacks_and_sb called by create_game_handler with stacks
\* from the set stacks
NewGame(stacks) ==
    /\ build = "unknown"
    /\ \E deck \in Decks, btn_stack \in stacks, bb_stack \in stacks :
          LET g == Game_new(deck, btn_stack, bb_stack, SbSize)
          IN  /\ current_hand = g.current_hand
              /\ button_seat = g.button_seat
    /\ ret = NoRet
    /\ hands_dealt = 1
    /\ off_menu = 0
    /\ overflows = 0

NoMessage == [kind |-> "none", amount |-> 0]

\* what a task sends through the senders of the client table: kind is
\* "state" (the snapshot asked for), "answer" (the action_response),
\* "broadcast_state" or "broadcast_result"; to is the set of the clients it is
\* sent to, answer the kind of what Game::submit_action had returned, state
\* the snapshot sent, made for for_seat
Send(kind, to, for_seat, answer, state) ==
    [kind |-> kind, to |-> to, for_seat |-> for_seat, answer |-> answer,
     state |-> state]

NoSend == Send("none", {}, 0, "None", <<>>)

\* client_connection has registered the sender of every client and waits
\* for the first message
ClientsConnected ==
    /\ pc = [c \in Clients |-> "idle"]
    /\ message = [c \in Clients |-> NoMessage]
    /\ turn_ok = [c \in Clients |-> FALSE]
    /\ hand_result = [c \in Clients |-> <<>>]
    /\ clients_lock = NoHolder
    /\ games_lock = NoHolder
    /\ received = 0
    /\ sent = NoSend

\* the create_game requests the server handles
CreateRequests == 1..MaxCreateRequests

NoBody == [id |-> 0, sb_size |-> 0, stacks |-> <<0, 0>>]

\* the game table is the one of main, without the game of any request, and
\* no create_game request has arrived
NoRequest ==
    /\ games = <<>>
    /\ create_pc = [r \in CreateRequests |-> "idle"]
    /\ create_body = [r \in CreateRequests |-> NoBody]
    /\ create_reply = [r \in CreateRequests |-> "none"]

\* no Street is driven on its own
NoStreet ==
    /\ test_street = Street_new("Preflop", Wrap(2 * SbSize), MaxStack, MaxStack)
    /\ test_result = "None"

Init == NewGame(StackChoices) /\ ClientsConnected /\ NoStreet /\ NoRequest

\* a PostBlind that the menu of the current street does not offer
OffMenuBlind(g, action) ==
    /\ action.kind = "PostBlind"
    /\ ~Contains(get_available_actions(Last(g.current_hand.streets)),
                 OptPostBlind(action.amount))

\* the turn check of Game::submit_action, which precedes every use of the
\* action: out of turn, one action stands for all of them
InTurn(g, from_seat) ==
    player_position(g, from_seat)
        = get_street_status(Last(g.current_hand.streets)).active

\* the game and the counters after a call of Game::submit_action gave r in
\* build b; off: the action was a PostBlind off the menu, ovf: the call
\* overflowed
Returned(r, b, off, ovf) ==
    /\ current_hand' = r.game.current_hand
    /\ button_seat' = r.game.button_seat
    /\ ret' = r.ret
    /\ hands_dealt' = IF Len(r.ret.hand_result) = 1 THEN hands_dealt + 1
                                                    ELSE hands_dealt
    /\ build' = IF ovf THEN b ELSE build
    /\ off_menu' = IF off THEN off_menu + 1 ELSE off_menu
    /\ overflows' = IF ovf THEN overflows + 1 ELSE overflows

\* the builds of which checked, the outcome of the call with overflow
\* checks, can be the outcome
BuildsOf(panicked) ==
    IF build # "unknown" THEN {build}
    ELSE IF panicked THEN {"debug", "release"}
    ELSE {"unknown"}

\* the outcomes of the call: one for each build that is still possible and
\* each deck that Card::generate_shuffled_deck can return when the call ends
\* the hand
Outcomes(from_seat, action, off, checked) ==
    \E b \in BuildsOf(checked.ret.kind = "Panic") :
       \E deck \in IF Len(checked.ret.hand_result) = 1 \/ b = "release"
                      THEN Decks ELSE {DeckSplit} :
          /\ (deck # DeckSplit /\ b # "release")
                \/ deck = DeckSplit
                \/ Len(Game_submit_action(game, action, from_seat, deck,
                                          "release").ret.hand_result) = 1
          /\ Returned(IF b = "release" \/ deck # DeckSplit
                         THEN Game_submit_action(
                                  game, action, from_seat, deck,
                                  IF b = "release" THEN b ELSE "debug")
                         ELSE checked,
                      b, off, checked.ret.kind = "Panic")

\* the call game.submit_action(action, from_seat) on the game of the session;
\* the build is fixed by the first call that overflows
Submitted(from_seat, action) ==
    Outcomes(from_seat, action, OffMenuBlind(game, action),
             Game_submit_action(game, action, from_seat, DeckSplit, "debug"))

\* a client of seat from_seat submits action
SubmitAction ==
    /\ \/ hands_dealt <= MaxHands
       \/ /\ hands_dealt = MaxHands + 1
          /\ Len(Last(current_hand.streets).actions) < MaxTailActions
    /\ overflows < MaxOverflows
    /\ Len(Last(current_hand.streets).actions) < MaxStreetActions
    /\ \E from_seat \in Seats :
       \E action \in IF InTurn(game, from_seat) THEN ActionInputs ELSE {Fold} :
          /\ OffMenuBlind(game, action) => off_menu < MaxOffMenu
          /\ Submitted(from_seat, action)
    /\ UNCHANGED <<wsvars, streetvars, createvars>>

Next == SubmitAction

Spec == Init /\ [][Next]_vars

----------------------------------------------------------------------------
(* ws.rs: the client_msg tasks of the connected clients.  The tasks run on *)
(* the threads of the tokio runtime; a task is followed from one lock      *)
(* acquisition to the next and, inside Game::submit_action, from the turn  *)
(* check to the call of Hand::submit_action.                               *)

StateRequest == [kind |-> "state", amount |-> 0]

\* the text messages the clients send: "state" and serialized Actions
WsMessages ==
    {StateRequest, PostBlind(SbSize), PostBlind(2 * SbSize), Fold, Check,
     Call(2 * SbSize), Raise(MaxStack)}

\* fault injection: the lock taken with read(), which holders share
LockShared(lock) == TRUE

\* RwLock::write: the lock is granted when nobody holds it
LockFree(lock) == lock = NoHolder

\* the seat whose position is the active player
SeatInTurn(g) == IF InTurn(g, 0) THEN 0 ELSE 1

\* client_connection takes the next message off the websocket and client_msg
\* starts on it
Receive(c) ==
    /\ pc[c] = "idle"
    /\ received < MaxMessages
    /\ \E m \in WsMessages : message' = [message EXCEPT ![c] = m]
    /\ pc' = [pc EXCEPT ![c] = "lock_clients"]
    /\ received' = received + 1
    /\ UNCHANGED <<createvars, streetvars, gamevars, turn_ok, hand_result, clients_lock, games_lock,
                   sent>>

\* let mut locked = clients.write().await
LockClients(c) ==
    /\ pc[c] = "lock_clients"
    /\ LockFree(clients_lock)
    /\ clients_lock' = clients_lock \cup {c}
    /\ pc' = [pc EXCEPT ![c] = "lock_games"]
    /\ UNCHANGED <<createvars, streetvars, gamevars, message, turn_ok, hand_result, games_lock, received,
                   sent>>

\* games.write().await.get_mut(&game_id)
LockGames(c) ==
    /\ pc[c] = "lock_games"
    /\ LockFree(games_lock)
    /\ games_lock' = games_lock \cup {c}
    /\ pc' = [pc EXCEPT ![c] = IF message[c] = StateRequest THEN "send_state"
                                                        ELSE "turn_check"]
    /\ UNCHANGED <<createvars, streetvars, gamevars, message, turn_ok, hand_result, clients_lock, received,
                   sent>>

\* message == "state": the snapshot goes to the sender, both guards drop
SendState(c) ==
    /\ pc[c] = "send_state"
    /\ pc' = [pc EXCEPT ![c] = "idle"]
    /\ games_lock' = games_lock \ {c}
    /\ clients_lock' = clients_lock \ {c}
    /\ sent' = Send("state", {c}, c, "None", <<get_state_json(game, c)>>)
    /\ UNCHANGED <<createvars, streetvars, gamevars, message, turn_ok, hand_result, received>>

\* process_user_command enters Game::submit_action: the turn check
TurnCheck(c) ==
    /\ pc[c] = "turn_check"
    /\ turn_ok' = [turn_ok EXCEPT ![c] = InTurn(game, c)]
    /\ pc' = [pc EXCEPT ![c] = "apply"]
    /\ UNCHANGED <<createvars, streetvars, gamevars, message, hand_result, clients_lock, games_lock,
                   received, sent>>

\* the rest of Game::submit_action, which goes on as the turn check found
\* and does not read from_seat again; the answer is sent and the guard of
\* the client table dropped.  A panic unwinds the task and drops both guards.
Apply(c) ==
    /\ pc[c] = "apply"
    /\ Submitted(IF turn_ok[c] THEN SeatInTurn(game) ELSE 1 - SeatInTurn(game),
                 message[c])
    /\ hand_result' = [hand_result EXCEPT ![c] = ret'.hand_result]
    /\ clients_lock' = clients_lock \ {c}
    /\ IF ret'.kind = "Panic"
          THEN /\ pc' = [pc EXCEPT ![c] = "dead"]
               /\ games_lock' = games_lock \ {c}
               /\ sent' = sent
          ELSE /\ pc' = [pc EXCEPT ![c] = "broadcast_state"]
               /\ games_lock' = games_lock
               /\ sent' = Send("answer", {c}, c, ret'.kind, <<>>)
    /\ UNCHANGED <<createvars, streetvars, message, turn_ok, received>>

\* broadcast_message(clients, &state): the write lock of the client table is
\* taken again, with the game table still locked, and dropped after the loop
BroadcastState(c) ==
    /\ pc[c] = "broadcast_state"
    /\ LockFree(clients_lock)
    /\ IF hand_result[c] # <<>>
          THEN /\ pc' = [pc EXCEPT ![c] = "broadcast_result"]
               /\ games_lock' = games_lock
          ELSE /\ pc' = [pc EXCEPT ![c] = "idle"]
               /\ games_lock' = games_lock \ {c}
    /\ sent' = Send("broadcast_state", Clients, c, ret.kind,
                    <<get_state_json(game, c)>>)
    /\ UNCHANGED <<createvars, streetvars, gamevars, message, turn_ok, hand_result, clients_lock, received>>

\* broadcast_message(clients, &hand_result), then the guard of the game
\* table drops
BroadcastResult(c) ==
    /\ pc[c] = "broadcast_result"
    /\ LockFree(clients_lock)
    /\ pc' = [pc EXCEPT ![c] = "idle"]
    /\ games_lock' = games_lock \ {c}
    /\ sent' = Send("broadcast_result", Clients, c, ret.kind, <<>>)
    /\ UNCHANGED <<createvars, streetvars, gamevars, message, turn_ok, hand_result, clients_lock, received>>

InitWs == NewGame({MaxStack}) /\ ClientsConnected /\ NoStreet /\ NoRequest

NextWs ==
    \E c \in Clients :
        \/ Receive(c)
        \/ LockClients(c)
        \/ LockGames(c)
        \/ SendState(c)
        \/ TurnCheck(c)
        \/ Apply(c)
        \/ BroadcastState(c)
        \/ BroadcastResult(c)

SpecWs == InitWs /\ [][NextWs]_vars

----------------------------------------------------------------------------
(* A Street driven on its own through Street::new and Street::submit_action *)

StreetNames == {"Preflop", "Flop", "River"}

\* the stacks Street::new is called with
StreetStacks == {SbSize, 2 * SbSize, MaxStack, MaxStreetStack}

StreetAmounts == 0..MaxStreetStack + 1

\* every Action submitted to the street
StreetInputs ==
    {Fold, Check}
    \cup {PostBlind(a) : a \in BlindAmounts}
    \cup {Call(a) : a \in StreetAmounts}
    \cup {Bet(a) : a \in StreetAmounts}
    \cup {Raise(a) : a \in StreetAmounts}

InitStreet ==
    /\ NewGame({MaxStack})
    /\ current_hand.deck = SubSeq(DeckSplit, 1, 5)
    /\ ClientsConnected
    /\ \E name \in StreetNames, btn_stack \in StreetStacks,
          bb_stack \in StreetStacks :
          test_street = Street_new(name, Wrap(2 * SbSize), btn_stack, bb_stack)
    /\ test_result = "None"
    /\ NoRequest

\* the street and the counters after a call of Street::submit_action gave r
StreetReturned(r, b, off, ovf) ==
    /\ test_street' = r.street
    /\ test_result' = r.result
    /\ build' = IF ovf THEN b ELSE build
    /\ off_menu' = IF off THEN off_menu + 1 ELSE off_menu
    /\ overflows' = IF ovf THEN overflows + 1 ELSE overflows

\* the outcomes of the call, one for each build that is still possible
StreetOutcomes(action, off, checked) ==
    /\ off => off_menu < MaxOffMenu
    /\ \E b \in BuildsOf(checked.panic) :
          StreetReturned(IF b = "release"
                            THEN Street_submit_action(test_street, action, b)
                            ELSE checked,
                         b, off, checked.panic)

\* street.submit_action(action) while the betting of the street is open
StreetSubmit ==
    /\ test_result \in {"None", "BettingOpen", "Invalid action"}
    /\ overflows < MaxOverflows
    /\ Len(test_street.actions) < MaxStreetActions
    /\ \E action \in StreetInputs :
          StreetOutcomes(action,
                         /\ action.kind = "PostBlind"
                         /\ ~Contains(get_available_actions(test_street),
                                      OptPostBlind(action.amount)),
                         Street_submit_action(test_street, action, "debug"))
    /\ UNCHANGED <<button_seat, current_hand, ret, hands_dealt, wsvars,
                   createvars>>

NextStreet == StreetSubmit

SpecStreet == InitStreet /\ [][NextStreet]_vars

----------------------------------------------------------------------------
(* game.rs, tests: the session the tests of Game create, with the stacks    *)
(* and the blind of Game::new_with_stacks_and_sb(500, 600, 5), driven with  *)
(* the actions the tests submit                                             *)

TestBtnStack == 500
TestBbStack == 600
TestSbSize == 5

\* the actions the tests submit, and the call of their Raise
TestInputs ==
    {Fold, Check,
     PostBlind(TestSbSize), PostBlind(2 * TestSbSize),
     Call(2 * TestSbSize), Raise(8 * TestSbSize), Call(8 * TestSbSize)}

InitTests ==
    /\ build = "unknown"
    /\ \E deck \in Decks :
          LET g == Game_new(deck, TestBtnStack, TestBbStack, TestSbSize)
          IN  /\ current_hand = g.current_hand
              /\ button_seat = g.button_seat
    /\ ret = NoRet
    /\ hands_dealt = 1
    /\ off_menu = 0
    /\ overflows = 0
    /\ ClientsConnected
    /\ NoStreet
    /\ NoRequest

\* a test calls game.submit_action(action, from_seat)
SubmitTestAction ==
    /\ \/ hands_dealt <= MaxTestHands
       \/ /\ hands_dealt = MaxTestHands + 1
          /\ Len(Last(current_hand.streets).actions) < MaxTailActions
    /\ overflows < MaxOverflows
    /\ Len(Last(current_hand.streets).actions) < MaxStreetActions
    /\ \E from_seat \in Seats :
       \E action \in IF InTurn(game, from_seat) THEN TestInputs ELSE {Fold} :
          /\ OffMenuBlind(game, action) => off_menu < MaxOffMenu
          /\ Submitted(from_seat, action)
    /\ UNCHANGED <<wsvars, streetvars, createvars>>

NextTests == SubmitTestAction

SpecTests == InitTests /\ [][NextTests]_vars

----------------------------------------------------------------------------
(* handler.rs: the create_game_handler tasks of the create_game requests.   *)
(* A task is followed from one lock acquisition of the game table to the    *)
(* next; the clients of a registered game post its blinds meanwhile.        *)

\* the ids the requests name
GameIds == {1}

\* the stacks the requests ask for, both covering the blinds
CreateStacks == {MaxStack, MaxStreetStack}

\* the bodies of the create_game requests
CreateBodies ==
    {[id |-> id, sb_size |-> SbSize, stacks |-> <<s0, s1>>] :
        id \in GameIds, s0 \in CreateStacks, s1 \in CreateStacks}

\* HashMap::insert: the entry of the key is set, an old value is replaced
insert(table, key, value) ==
    [k \in DOMAIN table \cup {key} |-> IF k = key THEN value ELSE table[k]]

\* warp hands the request with its body to create_game_handler
CreateReceive(r) ==
    /\ create_pc[r] = "idle"
    /\ \E body \in CreateBodies :
          create_body' = [create_body EXCEPT ![r] = body]
    /\ create_pc' = [create_pc EXCEPT ![r] = "check"]
    /\ UNCHANGED <<gamevars, wsvars, streetvars, games, create_reply>>

\* games.read().await.contains_key(&id); the read guard drops with the
\* condition
CreateCheck(r) ==
    /\ create_pc[r] = "check"
    /\ IF create_body[r].id \in DOMAIN games
          THEN /\ create_reply' = [create_reply EXCEPT ![r] = "already exists"]
               /\ create_pc' = [create_pc EXCEPT ![r] = "done"]
          ELSE /\ create_reply' = create_reply
               /\ create_pc' = [create_pc EXCEPT ![r] = "insert"]
    /\ UNCHANGED <<gamevars, wsvars, streetvars, games, create_body>>

\* Game::new_with_stacks_and_sb and games.write().await.insert(id, newgame),
\* then the reply "Game created"
CreateInsert(r) ==
    /\ create_pc[r] = "insert"
    /\ \E deck \in Decks :
          games' = insert(games, create_body[r].id,
                          Game_new(deck, create_body[r].stacks[1],
                                   create_body[r].stacks[2],
                                   create_body[r].sb_size))
    /\ create_reply' = [create_reply EXCEPT ![r] = "created"]
    /\ create_pc' = [create_pc EXCEPT ![r] = "done"]
    /\ UNCHANGED <<gamevars, wsvars, streetvars, create_body>>

\* the blind on the menu of game g, if the hand is in its blind phase
BlindOnMenu(g) ==
    LET options == get_available_actions(Last(g.current_hand.streets))
    IN  IF options[1].kind = "PostBlind" THEN <<PostBlind(options[1].min)>>
                                         ELSE <<>>

\* the client whose turn it is in the game registered under id posts the
\* blind on the menu (client_msg on games.write().await.get_mut(&game_id))
PostRegisteredBlind(id) ==
    /\ id \in DOMAIN games
    /\ BlindOnMenu(games[id]) # <<>>
    /\ games' = [games EXCEPT
                   ![id] = Game_submit_action(games[id],
                                              BlindOnMenu(games[id])[1],
                                              SeatInTurn(games[id]),
                                              DeckSplit, "release").game]
    /\ UNCHANGED <<gamevars, wsvars, streetvars, create_pc, create_body,
                   create_reply>>

InitCreate ==
    /\ NewGame({MaxStack})
    /\ current_hand.deck = SubSeq(DeckSplit, 1, 5)
    /\ ClientsConnected
    /\ NoStreet
    /\ NoRequest

NextCreate ==
    \/ \E r \in CreateRequests :
          \/ CreateReceive(r)
          \/ CreateCheck(r)
          \/ CreateInsert(r)
    \/ \E id \in GameIds : PostRegisteredBlind(id)

SpecCreate == InitCreate /\ [][NextCreate]_vars

----------------------------------------------------------------------------
(* Properties *)

Builds == {"debug", "release"}
CurrentStreet == Last(current_hand.streets)

\* whether action matches an option of the menu of street s
OnMenu(s, action) ==
    \E i \in 1..Len(get_available_actions(s)) :
        LET o == get_available_actions(s)[i]
        IN  /\ o.kind = action.kind
            /\ action.amount >= o.min
            /\ action.amount <= o.max

\* the hand was created with stacks that cover the blinds
BlindsCovered(h) ==
    /\ h.btn_start_stack >= h.sb_size
    /\ h.bb_start_stack >= 2 * h.sb_size

\* C1: chip conservation.  In every state the program reaches, the pot plus
\* the two remaining stacks of the current hand equals, in u64 arithmetic,
\* the sum of the two stacks the hand started with; and as long as the
\* clients sent only actions from the menu to a hand whose start stacks
\* cover the blinds, the equality is exact and no stack exceeds its start.
ChipsConserved ==
    LET h == current_hand
    IN  /\ Wrap(h.pot + h.btn_stack + h.bb_stack)
             = Wrap(h.btn_start_stack + h.bb_start_stack)
        /\ (off_menu = 0 /\ BlindsCovered(h)) =>
              /\ h.pot + h.btn_stack + h.bb_stack
                   = h.btn_start_stack + h.bb_start_stack
              /\ h.btn_stack <= h.btn_start_stack
              /\ h.bb_stack <= h.bb_start_stack

\* a hand on a later street, chips of both players in the pot, menu actions only
ChipsConservedWitness ==
    /\ off_menu = 0
    /\ overflows = 0
    /\ Len(current_hand.streets) >= 2
    /\ current_hand.pot > 2 * current_hand.sb_size + current_hand.sb_size
    /\ current_hand.btn_stack < current_hand.btn_start_stack
    /\ current_hand.bb_stack < current_hand.bb_start_stack

\* C2: Street::submit_action rejects every action that matches no option of
\* the menu -- a PostBlind of another amount than the offered one, or a
\* PostBlind where none is offered, included -- and leaves the street as it
\* was.
OffMenuRejected ==
    \A action \in ActionInputs : \A b \in Builds :
        LET r == Street_submit_action(CurrentStreet, action, b)
        IN  ~OnMenu(CurrentStreet, action) =>
                /\ r.result = "Invalid action"
                /\ r.street = CurrentStreet

\* C3: whenever Street::submit_action or Hand::submit_action returns an
\* error, the street (action list, stacks) and the hand (pot, stacks, board,
\* deck, streets) are exactly as they were before the call; and the call of
\* Game::submit_action that returned the error left the game unchanged.
ErrorLeavesStateUnchanged ==
    /\ \A action \in ActionInputs : \A b \in Builds :
          LET rs == Street_submit_action(CurrentStreet, action, b)
              rh == Hand_submit_action(current_hand, action, b)
          IN  /\ rs.result = "Invalid action" => rs.street = CurrentStreet
              /\ rh.ret.kind = "Err" => rh.hand = current_hand
    /\ ret.kind = "Err" =>
          \E action \in ActionInputs : \E seat \in Seats : \E b \in Builds :
              Game_submit_action(game, action, seat, DeckSplit, b)
                  = [game |-> game, ret |-> ret]

\* an invalid action was rejected on a later street with chips in the pot
ErrorLeavesStateUnchangedWitness ==
    /\ ret = RetErr("Invalid action")
    /\ Len(current_hand.streets) >= 2
    /\ current_hand.pot > 0
    /\ Len(CurrentStreet.actions) > 0

\* C4: Game::submit_action resolves from_seat to Button when it equals
\* button_seat and to BigBlind otherwise; when that position is not the
\* active player the call returns the error "It is not your turn to act" and
\* leaves the hand, the button seat and the stacks unchanged, whatever the
\* action; and the seat in turn never gets that error.
OutOfTurnRejected ==
    \A seat \in Seats : \A action \in ActionInputs : \A b \in Builds :
        LET pos == IF seat = button_seat THEN "Button" ELSE "BigBlind"
            active == get_street_status(CurrentStreet).active
            r == Game_submit_action(game, action, seat, DeckSplit, b)
        IN  r.ret.kind # "Panic" =>
              /\ pos # active =>
                    /\ r.ret = RetErr("It is not your turn to act")
                    /\ r.game = game
              /\ pos = active => r.ret.msg # "It is not your turn to act"

\* the out-of-turn error was returned after the button had rotated
OutOfTurnRejectedWitness ==
    /\ ret = RetErr("It is not your turn to act")
    /\ button_seat = 1

\* C5: the turn check and the mutation of an action are one atomic unit per
\* game.  A client_msg task is between its turn check and its mutation only
\* while it holds both write locks, no two tasks are there together, the
\* verdict of the turn check still holds for the game when the mutation is
\* made (an action sent concurrently is validated against the state the
\* other left), and an action is accepted only from the seat whose turn it
\* was, so at most one of two concurrent actions is accepted for a turn.
SerializedTurns ==
    /\ \A c \in Clients :
          /\ pc[c] \in {"send_state", "turn_check", "apply"} =>
                games_lock = {c} /\ clients_lock = {c}
          /\ pc[c] \in {"broadcast_state", "broadcast_result"} =>
                games_lock = {c}
          /\ pc[c] = "apply" => turn_ok[c] = InTurn(game, c)
          /\ (pc[c] \in {"broadcast_state", "broadcast_result"}
                /\ ret.kind = "Ok") => turn_ok[c]
          /\ (pc[c] \in {"broadcast_state", "broadcast_result"}
                /\ ~turn_ok[c]) => ret = RetErr("It is not your turn to act")
    /\ Cardinality({c \in Clients : pc[c] \in {"send_state", "turn_check",
                        "apply", "broadcast_state", "broadcast_result"}}) <= 1

\* both seats sent their blind at once: seat 0, whose turn it was, has been
\* accepted and is about to broadcast, seat 1 waits for the client table
SerializedTurnsWitness ==
    /\ received = 2
    /\ pc[0] = "broadcast_state"
    /\ message[0] = PostBlind(SbSize)
    /\ turn_ok[0]
    /\ ret = RetOk(<<>>)
    /\ Len(CurrentStreet.actions) = 1
    /\ pc[1] = "lock_clients"
    /\ message[1] = PostBlind(2 * SbSize)

\* the builds the program may still turn out to be
BuildsNow == IF build = "unknown" THEN Builds ELSE {build}

\* C6: the snapshot get_state_json makes for a seat holds the hole cards of
\* the position that seat occupies now and not the opponent's: the field of
\* the other position is empty and no card of the opponent is in the
\* snapshot, before and after the button has rotated.
OwnHoleCardsOnly ==
    \A seat \in Seats :
        LET s == get_state_json(game, seat)
            h == current_hand
            own == IF seat = button_seat THEN h.btn_hole_cards
                                         ELSE h.bb_hole_cards
            theirs == IF seat = button_seat THEN h.bb_hole_cards
                                            ELSE h.btn_hole_cards
            shown == {c[i] : c \in {x[1] : x \in {s.btn_hole_cards,
                                                    s.bb_hole_cards} \ {<<>>}},
                             i \in 1..2}
                     \cup {s.board_cards[i] : i \in 1..Len(s.board_cards)}
        IN  /\ seat = button_seat =>
                  s.btn_hole_cards = <<own>> /\ s.bb_hole_cards = <<>>
            /\ seat # button_seat =>
                  s.bb_hole_cards = <<own>> /\ s.btn_hole_cards = <<>>
            /\ own[1] \in shown /\ own[2] \in shown
            /\ theirs[1] \notin shown /\ theirs[2] \notin shown

\* the button has rotated and the next hand is being played
OwnHoleCardsOnlyWitness ==
    /\ button_seat = 1
    /\ hands_dealt = 2
    /\ Len(CurrentStreet.actions) >= 1
    /\ ret.kind = "Ok"

\* what a position has put in over the streets of a hand, by replay
RECURSIVE TotalAdded(_, _, _)
TotalAdded(streets, pos, i) ==
    IF i > Len(streets) THEN 0
    ELSE (IF pos = "Button" THEN get_street_status(streets[i]).btn
                            ELSE get_street_status(streets[i]).bb)
         + TotalAdded(streets, pos, i + 1)

\* C7: when a call of Hand::submit_action ends the hand with a winner -- the
\* opponent of the player who folded, or the player with the strictly better
\* evaluation at the showdown after the river -- the HandResult names that
\* winner, the winner's next stack is the winner's hand-start stack plus the
\* loser's total contribution over the hand and the loser's next stack is the
\* loser's hand-start stack minus that contribution (u64 arithmetic; exact
\* when only menu actions were sent to a hand whose stacks cover the blinds).
DecisiveSettlement ==
    \A action \in ActionInputs : \A b \in BuildsNow :
        LET before == get_street_status(CurrentStreet)
            r == Hand_submit_action(current_hand, action, b)
            h == r.hand
            res == r.ret.hand_result[1]
            btn_in == TotalAdded(h.streets, "Button", 1)
            bb_in == TotalAdded(h.streets, "BigBlind", 1)
            btn_eval == Evaluate(h.btn_hole_cards \o h.board_cards)
            bb_eval == Evaluate(h.bb_hole_cards \o h.board_cards)
            exact == off_menu = 0 /\ BlindsCovered(h)
                     /\ ~OffMenuBlind(game, action)
        IN  (r.ret.kind = "Ok" /\ Len(r.ret.hand_result) = 1) =>
              /\ action.kind = "Fold" =>
                    /\ res.winner = other_player(before.active)
                    /\ res.showdown = <<>>
              /\ action.kind # "Fold" =>
                    /\ Len(res.showdown) = 1
                    /\ CurrentStreet.street = "River"
                    /\ res.winner = "Button" <=> btn_eval > bb_eval
                    /\ res.winner = "BigBlind" <=> bb_eval > btn_eval
              /\ res.winner = "Button" =>
                    /\ res.btn_next_hand_stack
                         = Wrap(h.btn_start_stack + bb_in)
                    /\ res.bb_next_hand_stack
                         = Wrap(h.bb_start_stack - bb_in)
                    /\ exact =>
                         /\ res.btn_next_hand_stack = h.btn_start_stack + bb_in
                         /\ res.bb_next_hand_stack = h.bb_start_stack - bb_in
              /\ res.winner = "BigBlind" =>
                    /\ res.bb_next_hand_stack
                         = Wrap(h.bb_start_stack + btn_in)
                    /\ res.btn_next_hand_stack
                         = Wrap(h.btn_start_stack - btn_in)
                    /\ exact =>
                         /\ res.bb_next_hand_stack = h.bb_start_stack + btn_in
                         /\ res.btn_next_hand_stack = h.btn_start_stack - btn_in

\* a hand of menu actions was won at the showdown and the next hand is dealt
\* with the swapped stacks
DecisiveSettlementWitness ==
    /\ off_menu = 0
    /\ overflows = 0
    /\ ret.kind = "Ok"
    /\ Len(ret.hand_result) = 1
    /\ ret.hand_result[1].winner = "BigBlind"
    /\ Len(ret.hand_result[1].showdown) = 1
    /\ ret.hand_result[1].bb_next_hand_stack > MaxStack
    /\ current_hand.btn_start_stack = ret.hand_result[1].bb_next_hand_stack

\* C8: when the river closes and neither evaluation is better than the other,
\* Hand::submit_action returns a HandResult with winner None whose next
\* stacks are the stacks the hand started with, whatever was contributed;
\* and winner None is returned in no other case.
SplitSettlement ==
    \A action \in ActionInputs : \A b \in BuildsNow :
        LET r == Hand_submit_action(current_hand, action, b)
            h == r.hand
            res == r.ret.hand_result[1]
            btn_eval == Evaluate(h.btn_hole_cards \o h.board_cards)
            bb_eval == Evaluate(h.bb_hole_cards \o h.board_cards)
        IN  (r.ret.kind = "Ok" /\ Len(r.ret.hand_result) = 1) =>
              /\ (action.kind # "Fold" /\ btn_eval = bb_eval) =>
                    /\ res.winner = "None"
                    /\ res.btn_next_hand_stack = h.btn_start_stack
                    /\ res.bb_next_hand_stack = h.bb_start_stack
                    /\ res.btn_next_hand_stack = current_hand.btn_start_stack
                    /\ res.bb_next_hand_stack = current_hand.bb_start_stack
              /\ res.winner = "None" =>
                    /\ action.kind # "Fold"
                    /\ btn_eval = bb_eval
                    /\ Len(res.showdown) = 1

\* a hand of menu actions was split and the next hand starts with the full stacks
SplitSettlementWitness ==
    /\ ret.kind = "Ok"
    /\ Len(ret.hand_result) = 1
    /\ ret.hand_result[1].winner = "None"
    /\ off_menu = 0
    /\ overflows = 0
    /\ current_hand.btn_start_stack = MaxStack
    /\ current_hand.bb_start_stack = MaxStack

\* the street s cut after its first k actions
Prefix(s, k) == [s EXCEPT !.actions = SubSeq(s.actions, 1, k)]

\* C9: on every street the active position is the first to act -- Button on
\* Preflop, BigBlind on Flop, Turn and River, whoever closed the street
\* before -- after an even number of accepted actions and the other position
\* after an odd number; every accepted action appends itself and flips it.
TurnAlternates ==
    /\ \A i \in 1..Len(current_hand.streets) :
          LET s == current_hand.streets[i]
              first == IF s.street = "Preflop" THEN "Button" ELSE "BigBlind"
          IN  \A k \in 0..Len(s.actions) :
                 get_street_status(Prefix(s, k)).active
                     = IF k % 2 = 0 THEN first ELSE other_player(first)
    /\ \A action \in ActionInputs : \A b \in BuildsNow :
          LET r == Street_submit_action(CurrentStreet, action, b)
          IN  r.result \in {"BettingOpen", "BettingClosed", "Fold"} =>
                /\ r.street.actions = Append(CurrentStreet.actions, action)
                /\ get_street_status(r.street).active
                     = other_player(get_street_status(CurrentStreet).active)

\* the BigBlind closed the Flop with a call and has acted first on the Turn
TurnAlternatesWitness ==
    /\ Len(current_hand.streets) >= 3
    /\ Len(current_hand.streets[2].actions) % 2 = 1
    /\ Len(current_hand.streets[3].actions) >= 1
    /\ overflows = 0

\* the streets the program holds: those of the current hand and the one
\* driven on its own
StreetsInPlay ==
    {current_hand.streets[i] : i \in 1..Len(current_hand.streets)}
    \cup {test_street}

\* C10: the minimum raise-to.  Along the actions of every street, after
\* PostBlind(a) it is 2a, after Bet(b) it is 2b, after Raise(r) made when the
\* larger contribution was p it is r + (r - p), and Fold, Check and Call
\* leave it as it was; before the first action it is the open raise of the
\* street (u64 arithmetic; exact as long as nothing has overflowed).
MinRaiseRule ==
    \A s \in StreetsInPlay :
        /\ get_street_status(Prefix(s, 0)).min = s.min_open_raise
        /\ \A k \in 1..Len(s.actions) :
              LET prev == get_street_status(Prefix(s, k - 1))
                  cur == get_street_status(Prefix(s, k))
                  a == s.actions[k]
                  p == Max(prev.btn, prev.bb)
                  want == CASE a.kind \in {"PostBlind", "Bet"} -> 2 * a.amount
                            [] a.kind = "Raise" -> a.amount + (a.amount - p)
                            [] OTHER -> prev.min
              IN  /\ cur.min = Wrap(want)
                  /\ ~cur.ovf => cur.min = want

\* a Bet was raised, the Raise was raised again by more than the minimum and
\* called
MinRaiseRuleWitness ==
    /\ Len(test_street.actions) = 4
    /\ test_street.actions[1].kind = "Bet"
    /\ test_street.actions[2].kind = "Raise"
    /\ test_street.actions[3].kind = "Raise"
    /\ test_street.actions[3].amount
         > get_street_status(Prefix(test_street, 2)).min
    /\ test_street.actions[4].kind = "Call"
    /\ test_result = "BettingClosed"
    /\ off_menu = 0


\* whether the menu of street s holds an option of the kind
Offers(s, kind) ==
    \E i \in 1..Len(get_available_actions(s)) :
        get_available_actions(s)[i].kind = kind

\* the Preflop streets in play on which the Button can limp: the blinds are
\* in, the BigBlind's contribution is the big blind, the Button is to act
\* and the call of the big blind is on the menu
LimpStreets ==
    {s \in StreetsInPlay :
        /\ s.street = "Preflop"
        /\ Len(s.actions) >= 2
        /\ get_street_status(s).active = "Button"
        /\ get_street_status(s).bb = s.min_open_raise
        /\ is_valid_action(s, Call(s.min_open_raise))}

\* the limp on street s in build b: the call returns BettingOpen, the
\* BigBlind is active and is offered Fold and Check, neither Call nor Bet,
\* and a Raise just when raise_offered; its Check closes the round and every
\* Raise it can make keeps it open
LimpKeepsOption(s, b, raise_offered) ==
    LET r == Street_submit_action(s, Call(s.min_open_raise), b)
    IN  r.result # "Panic" =>
          /\ r.result = "BettingOpen"
          /\ get_street_status(r.street).active = "BigBlind"
          /\ Offers(r.street, "Fold")
          /\ Offers(r.street, "Check")
          /\ ~Offers(r.street, "Call")
          /\ ~Offers(r.street, "Bet")
          /\ Offers(r.street, "Raise") <=> raise_offered
          /\ Street_submit_action(r.street, Check, b).result = "BettingClosed"
          /\ \A a \in StreetAmounts :
                is_valid_action(r.street, Raise(a)) =>
                    Street_submit_action(r.street, Raise(a), b).result
                        \in {"BettingOpen", "Panic"}

StreetsAfterBlinds ==
    {s \in StreetsInPlay : ~(s.street = "Preflop" /\ Len(s.actions) < 2)}

\* the contribution of position pos in the status st
Contribution(st, pos) == IF pos = "Button" THEN st.btn ELSE st.bb
\* the stack with which position pos started the street s, and what is left
StartStack(s, pos) ==
    IF pos = "Button" THEN s.btn_start_stack ELSE s.bb_start_stack
RemainingStack(s, pos) == IF pos = "Button" THEN s.btn_stack ELSE s.bb_stack

\* C12: all-in call capping.  After the blinds, Call is offered exactly when
\* the two contributions of the street differ, and the one amount offered
\* and accepted is the smaller of the larger contribution and the stack with
\* which the active player started the street; accepting it sets the
\* caller's contribution to that amount and leaves the opponent's as it was,
\* so a caller who cannot cover the bet ends with a remaining stack of 0.
AllInCallCapped ==
    \A s \in StreetsAfterBlinds :
        LET st == get_street_status(s)
            caller == st.active
            amount == Min(Max(st.btn, st.bb), StartStack(s, caller))
        IN  /\ Offers(s, "Call") <=> st.btn # st.bb
            /\ \A a \in StreetAmounts :
                  is_valid_action(s, Call(a)) <=> (st.btn # st.bb /\ a = amount)
            /\ st.btn # st.bb =>
                  /\ Contains(get_available_actions(s), OptCall(amount))
                  /\ \A b \in BuildsNow :
                        LET r == Street_submit_action(s, Call(amount), b)
                            after == get_street_status(r.street)
                        IN  r.result # "Panic" =>
                              /\ Contribution(after, caller) = amount
                              /\ Contribution(after, other_player(caller))
                                   = Contribution(st, other_player(caller))
                              /\ RemainingStack(r.street, caller)
                                   = StartStack(s, caller) - amount
                              /\ StartStack(s, caller) <= Max(st.btn, st.bb) =>
                                    RemainingStack(r.street, caller) = 0

\* a bet larger than the stack of the opponent was called for less: the
\* caller has nothing left and the bet is still recorded in full
AllInCallCappedWitness ==
    /\ off_menu = 0
    /\ overflows = 0
    /\ test_result = "BettingClosed"
    /\ Len(test_street.actions) >= 2
    /\ Last(test_street.actions).kind = "Call"
    /\ LET after == get_street_status(test_street)
           caller == other_player(after.active)
       IN  /\ Contribution(after, caller) = StartStack(test_street, caller)
           /\ Contribution(after, caller)
                < Contribution(after, other_player(caller))
           /\ RemainingStack(test_street, caller) = 0

\* the streets in play, blinds in, whose replay stays in the u64 range
StreetsInRange ==
    {s \in StreetsAfterBlinds : ~StatusOverflows(get_street_status(s))}

\* C13: the raise menu rule.  After the blinds, a Raise is offered exactly
\* when one of the two contributions of the street is above 0 and the chips
\* the active player has left are strictly more than the larger
\* contribution; the option is Raise(min, max) with min the current minimum
\* raise-to and max the stack with which the active player started the
\* street, and the amounts accepted are those from min to max.
RaiseMenuRule ==
    \A s \in StreetsInRange :
        LET st == get_street_status(s)
            offered == /\ st.btn > 0 \/ st.bb > 0
                       /\ RemainingStack(s, st.active) > Max(st.btn, st.bb)
        IN  /\ Offers(s, "Raise") <=> offered
            /\ offered =>
                  Contains(get_available_actions(s),
                           OptRaise(st.min, StartStack(s, st.active)))
            /\ \A a \in StreetAmounts :
                  is_valid_action(s, Raise(a)) <=>
                      /\ offered
                      /\ a >= st.min
                      /\ a <= StartStack(s, st.active)

\* a bet was raised and the player who bet is offered a raise in turn, while
\* having less left than the stack the option names as its maximum
RaiseMenuRuleWitness ==
    /\ off_menu = 0
    /\ overflows = 0
    /\ test_result = "BettingOpen"
    /\ Len(test_street.actions) = 2
    /\ test_street.actions[1].kind = "Bet"
    /\ test_street.actions[2].kind = "Raise"
    /\ Offers(test_street, "Raise")
    /\ \E a \in StreetAmounts : is_valid_action(test_street, Raise(a))

\* the streets on which a player is to act: the street of the current hand,
\* and the street driven on its own while its betting is open
OpenStreets ==
    {CurrentStreet}
    \cup (IF test_result \in {"None", "BettingOpen", "Invalid action"}
            THEN {test_street} ELSE {})

\* C14: a Raise is offered to every active player who has more chips than it
\* costs to call.  Whenever the betting of a street is open, the street has
\* money in it and the chips the active player has left exceed the
\* difference between the larger contribution and the player's own, the
\* menu holds a Raise (stated for streets that saw menu actions only).
RaiseOfferedWhenCallCovered ==
    off_menu = 0 =>
        \A s \in OpenStreets \cap StreetsInRange :
            LET st == get_street_status(s)
                to_call == Max(st.btn, st.bb) - Contribution(st, st.active)
            IN  (/\ st.btn > 0 \/ st.bb > 0
                 /\ RemainingStack(s, st.active) > to_call) =>
                    Offers(s, "Raise")


\* the options of the menu of street s, as a set
MenuSet(s) ==
    {get_available_actions(s)[i] : i \in 1..Len(get_available_actions(s))}

\* the first hand of the session of the tests, just after the two blinds
BlindsJustPosted ==
    /\ hands_dealt = 1
    /\ current_hand.sb_size = TestSbSize
    /\ current_hand.btn_start_stack = TestBtnStack
    /\ current_hand.bb_start_stack = TestBbStack
    /\ Len(current_hand.streets) = 1
    /\ CurrentStreet.actions
         = <<PostBlind(TestSbSize), PostBlind(2 * TestSbSize)>>

\* what the opening scenario says of the state after the blinds, the option
\* to raise apart
OpeningState ==
    /\ current_hand.pot = 15
    /\ current_hand.btn_stack = 495
    /\ current_hand.bb_stack = 590
    /\ CurrentStreet.btn_stack = 495
    /\ CurrentStreet.bb_stack = 590
    /\ get_street_status(CurrentStreet).active = "Button"
    /\ button_seat = 0
    /\ ~Offers(CurrentStreet, "Check")

\* C15 as amended: with sb = 5, Button stack 500 and BigBlind stack 600,
\* after PostBlind(5) and PostBlind(10) the pot is 15, the stacks are 495 and
\* 590, the Button is active and the available actions are exactly Fold,
\* Call(10) and Raise(20, 500), with no Check.
OpeningScenario ==
    BlindsJustPosted =>
        /\ OpeningState
        /\ MenuSet(CurrentStreet) = {OptFold, OptCall(10), OptRaise(20, 500)}
        /\ get_state_json(game, 0).available_actions
             = <<OptFold, OptCall(10), OptRaise(20, 500)>>

\* C15 as stated: the Raise option after the blinds is Raise(20, 495).
OpeningScenarioRaiseTo495 ==
    BlindsJustPosted =>
        /\ OpeningState
        /\ MenuSet(CurrentStreet) = {OptFold, OptCall(10), OptRaise(20, 495)}

\* both blinds of the scenario are in and nothing else was sent
OpeningScenarioWitness ==
    /\ BlindsJustPosted
    /\ off_menu = 0
    /\ ret = RetOk(<<>>)

\* the actions that are no PostBlind
NonBlindInputs == {action \in ActionInputs : action.kind # "PostBlind"}

\* C16: the blind-posting phase.  On the Preflop street, while fewer than two
\* actions are recorded, the menu is exactly [PostBlind(sb)] before the first
\* action and exactly [PostBlind(2*sb)] before the second, and every Fold,
\* Check, Call, Bet and Raise is rejected with the street left as it was; on
\* no other street and at no later point of Preflop does the menu hold a
\* PostBlind.  Stated for every street in play at every point of its action
\* list; the streets of a hand have min_open_raise = 2*sb_size.
BlindPostingPhase ==
    /\ \A i \in 1..Len(current_hand.streets) :
          current_hand.streets[i].min_open_raise = 2 * current_hand.sb_size
    /\ \A s \in StreetsInPlay : \A k \in 0..Len(s.actions) :
          LET p == Prefix(s, k)
              sb == s.min_open_raise \div 2
          IN  IF p.street = "Preflop" /\ k < 2
                THEN /\ get_available_actions(p)
                          = <<OptPostBlind(IF k = 0 THEN sb ELSE 2 * sb)>>
                     /\ \A action \in NonBlindInputs : \A b \in Builds :
                           /\ ~is_valid_action(p, action)
                           /\ Street_submit_action(p, action, b)
                                = StreetOut(p, "Invalid action", NoPlayer, FALSE)
                ELSE ~Offers(p, "PostBlind")
    /\ (CurrentStreet.street = "Preflop" /\ Len(CurrentStreet.actions) < 2) =>
          \A action \in NonBlindInputs : \A b \in Builds :
              Hand_submit_action(current_hand, action, b)
                  = HandOut(current_hand, RetErr("Invalid action"))

\* the seat in turn sent something else than the big blind and was rejected
BlindPostingPhaseWitness ==
    /\ CurrentStreet.street = "Preflop"
    /\ CurrentStreet.actions = <<PostBlind(current_hand.sb_size)>>
    /\ ret = RetErr("Invalid action")

\* C17: hand construction posts the blinds.  The hand Hand::new returns has
\* the Preflop action list [PostBlind(sb_size), PostBlind(2*sb_size)], so
\* every hand the session holds starts with the two blinds and the first
\* action a player can submit is the decision of the Button.
HandNewPostsBlinds ==
    /\ \A deck \in Decks : \A btn_stack \in StackChoices :
       \A bb_stack \in StackChoices :
          Hand_new(deck, btn_stack, bb_stack, SbSize).streets[1].actions
              = <<PostBlind(SbSize), PostBlind(2 * SbSize)>>
    /\ Len(current_hand.streets[1].actions) >= 2
    /\ SubSeq(current_hand.streets[1].actions, 1, 2)
         = <<PostBlind(current_hand.sb_size),
             PostBlind(2 * current_hand.sb_size)>>

\* the stack with which seat starts hand h, and the stack it holds in it,
\* when btn_seat holds the button
SeatStartStack(h, btn_seat, seat) ==
    IF seat = btn_seat THEN h.btn_start_stack ELSE h.bb_start_stack
SeatStack(h, btn_seat, seat) ==
    IF seat = btn_seat THEN h.btn_stack ELSE h.bb_stack

\* the step is a call that returned a HandResult
HandEnds == ret'.kind = "Ok" /\ Len(ret'.hand_result) = 1

\* the hand of the next state is a fresh one: no pot, no board, one Preflop
\* street without actions, hole cards and deck from a newly shuffled deck
FreshHand ==
    /\ current_hand'.pot = 0
    /\ current_hand'.board_cards = <<>>
    /\ current_hand'.btn_stack = current_hand'.btn_start_stack
    /\ current_hand'.bb_stack = current_hand'.bb_start_stack
    /\ current_hand'.streets
         = <<Street_new("Preflop", 2 * current_hand.sb_size,
                        current_hand'.btn_start_stack,
                        current_hand'.bb_start_stack)>>
    /\ \E deck \in Decks :
          /\ current_hand'.btn_hole_cards
               = <<deck[Len(deck)], deck[Len(deck) - 1]>>
          /\ current_hand'.bb_hole_cards
               = <<deck[Len(deck) - 2], deck[Len(deck) - 3]>>
          /\ current_hand'.deck = SubSeq(deck, 1, Len(deck) - 4)

\* C18: hand-over-hand continuity.  Every call that returns a HandResult
\* replaces the hand by a fresh one, flips button_seat and keeps sb_size, and
\* each seat starts the new hand with the next-hand stack the HandResult
\* gives to the position the seat held in the finished hand; in every other
\* step button_seat and sb_size stay as they are.
HandContinuity ==
    [][IF HandEnds
         THEN /\ button_seat' = 1 - button_seat
              /\ current_hand'.sb_size = current_hand.sb_size
              /\ FreshHand
              /\ \A seat \in Seats :
                    LET next == IF seat = button_seat
                                  THEN ret'.hand_result[1].btn_next_hand_stack
                                  ELSE ret'.hand_result[1].bb_next_hand_stack
                    IN  /\ SeatStartStack(current_hand', button_seat', seat)
                             = next
                        /\ SeatStack(current_hand', button_seat', seat) = next
         ELSE /\ button_seat' = button_seat
              /\ current_hand'.sb_size = current_hand.sb_size]_vars

\* two hands were played to their end: the button went to seat 1 and came
\* back, and chips have changed seats
HandContinuityWitness ==
    /\ hands_dealt = 3
    /\ button_seat = 0
    /\ Len(ret.hand_result) = 1
    /\ current_hand.btn_start_stack # TestBtnStack
    /\ off_menu = 0

\* the order of the streets, and the cards on the board on each of them
StreetOrder == <<"Preflop", "Flop", "Turn", "River">>
BoardSize == <<0, 3, 4, 5>>

\* the last k elements of seq, the last one first: the order of Vec::pop
Popped(seq, k) == [i \in 1..k |-> seq[Len(seq) + 1 - i]]

\* C19: street sequencing.  The streets of the hand are Preflop, Flop, Turn,
\* River in this order and the board holds 0, 3, 4 or 5 cards on them.  A
\* betting round that closes on Preflop, Flop or Turn deals 3, 1 or 1 cards
\* from the deck and appends the next street with no action, min_open_raise
\* = 2*sb_size and start stacks equal to the current stacks of the hand; an
\* action that leaves the betting open appends no street and deals no card.
StreetSequencing ==
    /\ Len(current_hand.streets) \in 1..4
    /\ \A i \in 1..Len(current_hand.streets) :
          current_hand.streets[i].street = StreetOrder[i]
    /\ Len(current_hand.board_cards) = BoardSize[Len(current_hand.streets)]
    /\ \A action \in ActionInputs : \A b \in BuildsNow :
          LET n == Len(current_hand.streets)
              sr == Street_submit_action(CurrentStreet, action, b)
              r == Hand_submit_action(current_hand, action, b)
              dealt == IF n = 1 THEN 3 ELSE 1
          IN  r.ret.kind = "Ok" =>
                CASE sr.result = "BettingClosed" /\ n < 4 ->
                        /\ Len(r.hand.streets) = n + 1
                        /\ SubSeq(r.hand.streets, 1, n - 1)
                             = SubSeq(current_hand.streets, 1, n - 1)
                        /\ r.hand.streets[n] = sr.street
                        /\ r.hand.streets[n + 1]
                             = Street_new(StreetOrder[n + 1],
                                          2 * current_hand.sb_size,
                                          r.hand.btn_stack, r.hand.bb_stack)
                        /\ r.hand.board_cards
                             = current_hand.board_cards
                                 \o Popped(current_hand.deck, dealt)
                        /\ r.hand.deck
                             = SubSeq(current_hand.deck, 1,
                                      Len(current_hand.deck) - dealt)
                  [] sr.result = "BettingOpen" ->
                        /\ Len(r.hand.streets) = n
                        /\ r.hand.streets[n] = sr.street
                        /\ r.hand.board_cards = current_hand.board_cards
                        /\ r.hand.deck = current_hand.deck
                  [] OTHER -> TRUE

\* the hand is on the River with five cards on the board
StreetSequencingWitness ==
    /\ Len(current_hand.streets) = 4
    /\ CurrentStreet.street = "River"
    /\ Len(current_hand.board_cards) = 5
    /\ off_menu = 0
    /\ overflows = 0

\* C20: showdown presence.  A call returns a HandResult exactly when the
\* action is a Fold or closes the betting of the River; the HandResult
\* carries a Showdown record exactly in the second case; after a Fold, on
\* the River too, it has no Showdown and names the opponent of the folder
\* as winner; and the winner is None only together with a Showdown record.
ShowdownPresence ==
    /\ \A action \in ActionInputs : \A b \in BuildsNow :
          LET sr == Street_submit_action(CurrentStreet, action, b)
              r == Hand_submit_action(current_hand, action, b)
              river_closed == /\ sr.result = "BettingClosed"
                              /\ CurrentStreet.street = "River"
          IN  r.ret.kind = "Ok" =>
                /\ Len(r.ret.hand_result) = 1
                     <=> (sr.result = "Fold" \/ river_closed)
                /\ Len(r.ret.hand_result) = 1 =>
                      LET hr == r.ret.hand_result[1]
                      IN  /\ Len(hr.showdown) = 1 <=> river_closed
                          /\ sr.result = "Fold" =>
                                /\ action = Fold
                                /\ hr.showdown = <<>>
                                /\ hr.winner
                                     = other_player(
                                         get_street_status(CurrentStreet).active)
                          /\ hr.winner = "None" => Len(hr.showdown) = 1
                          /\ Len(hr.showdown) = 1 =>
                                hr.showdown[1] = run_showdown(r.hand).showdown
    /\ Len(ret.hand_result) = 1 =>
          /\ ret.hand_result[1].winner \in Position \cup {"None"}
          /\ ret.hand_result[1].winner = "None" =>
                Len(ret.hand_result[1].showdown) = 1

\* the betting of the River closed and the showdown had a winner
ShowdownPresenceWitness ==
    /\ Len(ret.hand_result) = 1
    /\ Len(ret.hand_result[1].showdown) = 1
    /\ ret.hand_result[1].winner \in Position
    /\ hands_dealt = 2
    /\ off_menu = 0

\* the position that acts last on street s
LastToAct(s) == IF s.street = "Preflop" THEN "BigBlind" ELSE "Button"

\* C21: the Check.  An accepted Check returns BettingClosed exactly when the
\* player who checked is the last to act of the street -- BigBlind on
\* Preflop, Button on the later streets -- and BettingOpen otherwise, and it
\* leaves both contributions and both stacks as they were; so on a later
\* street check-check closes the round with both contributions 0 and both
\* stacks at their start.
CheckClassification ==
    \A s \in StreetsInPlay : \A b \in BuildsNow :
        LET st == get_street_status(s)
            r == Street_submit_action(s, Check, b)
            after == get_street_status(r.street)
        IN  r.result \notin {"Invalid action", "Panic"} =>
              /\ r.result = IF st.active = LastToAct(s) THEN "BettingClosed"
                                                       ELSE "BettingOpen"
              /\ after.btn = st.btn
              /\ after.bb = st.bb
              /\ r.street.btn_stack = s.btn_stack
              /\ r.street.bb_stack = s.bb_stack
              /\ (s.street # "Preflop" /\ s.actions = <<Check>>) =>
                    /\ r.result = "BettingClosed"
                    /\ after.btn = 0
                    /\ after.bb = 0
                    /\ r.street.btn_stack = s.btn_start_stack
                    /\ r.street.bb_stack = s.bb_start_stack

\* check-check has closed a later street
CheckClassificationWitness ==
    /\ test_street.street # "Preflop"
    /\ test_street.actions = <<Check, Check>>
    /\ test_result = "BettingClosed"
    /\ test_street.btn_stack = test_street.btn_start_stack
    /\ test_street.bb_stack = test_street.bb_start_stack

\* the later streets on which the BigBlind opens the betting with less than
\* the minimum bet left
ShortStackedOpenings ==
    {s \in OpenStreets :
        /\ s.street # "Preflop"
        /\ s.actions = <<>>
        /\ s.bb_stack > 0
        /\ s.bb_stack < s.min_open_raise
        /\ s.btn_stack > 0}

\* C22: the short all-in.  On a later street, when the BigBlind bets all the
\* chips it has left and that is less than the minimum bet, the bet stands
\* and the Button is offered exactly Fold and the Call capped to the amount
\* of the all-in (and to its own stack), and no Raise.
ShortAllIn ==
    \A s \in ShortStackedOpenings : \A b \in BuildsNow :
        LET r == Street_submit_action(s, Bet(s.bb_stack), b)
        IN  /\ r.result = "BettingOpen"
            /\ MenuSet(r.street)
                 = {OptFold, OptCall(Min(s.bb_stack, s.btn_start_stack))}

\* the k-th action of street s got BettingClosed or Fold from
\* Street::submit_action in build b: the match on the action gives one of the
\* two and the call came to its end (in the debug build the subtractions that
\* follow the push did not panic)
RoundOverAt(s, k, b) ==
    LET before == get_street_status(Prefix(s, k - 1))
        after == get_street_status(Prefix(s, k))
    IN  /\ action_result(Prefix(s, k - 1), s.actions[k], before.active)
             \in {"BettingClosed", "Fold"}
        /\ b = "debug" =>
              /\ ~before.ovf /\ ~after.ovf
              /\ ~Overflows(s.btn_start_stack - after.btn)
              /\ ~Overflows(s.bb_start_stack - after.bb)

\* in hand h of build b every round that is over ended with its last action
\* and has a street after it
RoundsOverReplaced(h, b) ==
    \A i \in 1..Len(h.streets) :
        \A k \in 1..Len(h.streets[i].actions) :
            RoundOverAt(h.streets[i], k, b) =>
                /\ k = Len(h.streets[i].actions)
                /\ i < Len(h.streets)

BroadcastAfterMutation ==
    /\ sent.kind \in {"broadcast_state", "broadcast_result"} =>
          /\ sent.to = Clients
          /\ sent.answer = "Ok"
    /\ \A c \in Clients :
          pc[c] = "broadcast_result" =>
              /\ ret.kind = "Ok"
              /\ hand_result[c] = ret.hand_result
              /\ Len(ret.hand_result) = 1

\* the tasks that are inside the game: between the lock of the game table
\* and the drop of its guard
InsideGame ==
    {c \in Clients : pc[c] \in {"send_state", "turn_check", "apply",
                                "broadcast_state", "broadcast_result"}}

\* C25: no torn reads.  get_state_json is called only by a task that holds
\* the write lock of the game table, so no snapshot is taken while the task
\* of another client is between its turn check and the end of its mutation;
\* every snapshot taken satisfies pot + btn_stack + bb_stack = sum of the
\* start stacks of the hand (u64 arithmetic; exactly while nothing has
\* overflowed) and shows one whole state of the game: unless a call has
\* panicked, its stacks are the start stacks of the street less the
\* contributions it shows.
NoTornReads ==
    \A c \in Clients :
        pc[c] \in {"send_state", "broadcast_state"} =>
            LET s == get_state_json(game, c)
                h == current_hand
            IN  /\ games_lock = {c}
                /\ InsideGame = {c}
                /\ Wrap(s.pot_size + s.btn_stack + s.bb_stack)
                     = Wrap(h.btn_start_stack + h.bb_start_stack)
                /\ overflows = 0 =>
                      s.pot_size + s.btn_stack + s.bb_stack
                        = h.btn_start_stack + h.bb_start_stack
                /\ build # "debug" =>
                      /\ s.btn_stack
                           = Wrap(CurrentStreet.btn_start_stack
                                    - s.btn_added_chips_this_street)
                      /\ s.bb_stack
                           = Wrap(CurrentStreet.bb_start_stack
                                    - s.bb_added_chips_this_street)

\* seat 0 has posted the small blind and is about to take the snapshot it
\* broadcasts, with the game table locked, while the task of seat 1, which
\* asked for the state, waits for the client table
NoTornReadsWitness ==
    /\ pc[0] = "broadcast_state"
    /\ message[0] = PostBlind(SbSize)
    /\ ret = RetOk(<<>>)
    /\ get_state_json(game, 0).pot_size = SbSize
    /\ get_state_json(game, 0).btn_stack = MaxStack - SbSize
    /\ pc[1] = "lock_clients"
    /\ message[1] = StateRequest

\* C26: Hand::new fails when the stacks do not cover the blinds.  A hand is
\* constructed only from a Button stack of at least sb_size and a BigBlind
\* stack of at least 2*sb_size, so the hand Game::new_with_stacks_and_sb
\* puts into a new session has such start stacks.
HandNewRequiresBlinds ==
    hands_dealt = 1 => BlindsCovered(current_hand)

\* C29: every hand the session deals after a hand has ended starts with
\* stacks that cover the blinds: the new Button holds at least sb_size and
\* the new BigBlind at least 2*sb_size, and no hand is dealt to a player who
\* is busted or short.  Stated for the hand dealt after a first hand whose
\* stacks covered the blinds and to which only menu actions were sent.
NextHandCoversBlinds ==
    (hands_dealt = 2 /\ off_menu = 0 /\ overflows = 0
        /\ current_hand.btn_start_stack + current_hand.bb_start_stack
             = 2 * MaxStack)
    => BlindsCovered(current_hand)

\* the number of options of the kind in the menu of street s
OptionCount(s, kind) ==
    Cardinality({i \in 1..Len(get_available_actions(s)) :
                    get_available_actions(s)[i].kind = kind})

\* C27: menu exclusivity.  On every street, once the blinds are in, the menu
\* holds Fold; it holds Check exactly when the two contributions of the
\* street are equal and Call exactly when they differ, so exactly one of the
\* two; it holds Bet exactly when both contributions are 0; Bet and Raise
\* are never in it together; no PostBlind is in it and no kind is in it
\* twice.
MenuExclusivity ==
    \A s \in StreetsAfterBlinds :
        LET st == get_street_status(s)
        IN  /\ Offers(s, "Fold")
            /\ Offers(s, "Check") <=> st.btn = st.bb
            /\ Offers(s, "Call") <=> st.btn # st.bb
            /\ Offers(s, "Check") # Offers(s, "Call")
            /\ Offers(s, "Bet") <=> (st.btn = 0 /\ st.bb = 0)
            /\ ~(Offers(s, "Bet") /\ Offers(s, "Raise"))
            /\ ~Offers(s, "PostBlind")
            /\ \A kind \in {"Fold", "Check", "Call", "Bet", "Raise"} :
                  OptionCount(s, kind) <= 1

\* the Button has limped: the contributions are equal and not 0, and the
\* menu of the BigBlind is Fold, Raise, Check, without Bet and without Call
MenuExclusivityWitness ==
    /\ test_street.street = "Preflop"
    /\ Len(test_street.actions) = 3
    /\ test_street.actions[3] = Call(test_street.min_open_raise)
    /\ test_result = "BettingOpen"
    /\ get_street_status(test_street).btn = get_street_status(test_street).bb
    /\ get_street_status(test_street).bb > 0
    /\ Offers(test_street, "Raise")
    /\ Offers(test_street, "Check")
    /\ ~Offers(test_street, "Bet")

\* C28: the street ledger.  After every accepted action, on every street of
\* the hand the stack stored for each position is the stack with which the
\* position started the street less its contribution replayed from the
\* action list, and the stack the hand holds for each position is the stack
\* of the current street (u64 arithmetic; exactly, and never above the
\* start, as long as only menu actions were sent to a hand whose start
\* stacks cover the blinds).  A call that panicked accepted nothing.
StreetLedger ==
    build # "debug" =>
        /\ \A i \in 1..Len(current_hand.streets) :
              LET s == current_hand.streets[i]
                  st == get_street_status(s)
              IN  /\ s.btn_stack = Wrap(s.btn_start_stack - st.btn)
                  /\ s.bb_stack = Wrap(s.bb_start_stack - st.bb)
                  /\ (off_menu = 0 /\ BlindsCovered(current_hand)) =>
                        /\ s.btn_stack = s.btn_start_stack - st.btn
                        /\ s.bb_stack = s.bb_start_stack - st.bb
        /\ current_hand.btn_stack = CurrentStreet.btn_stack
        /\ current_hand.bb_stack = CurrentStreet.bb_stack

\* on a later street of a hand played with menu actions the BigBlind has
\* bet: its stack is below its start stack of the street, which is below its
\* start stack of the hand
StreetLedgerWitness ==
    /\ off_menu = 0
    /\ overflows = 0
    /\ ret = RetOk(<<>>)
    /\ Len(current_hand.streets) >= 2
    /\ get_street_status(CurrentStreet).bb > 0
    /\ CurrentStreet.bb_stack < CurrentStreet.bb_start_stack
    /\ CurrentStreet.bb_start_stack < current_hand.bb_start_stack
    /\ current_hand.bb_stack = CurrentStreet.bb_stack

\* C30: the effective-stack bound.  When a hand that was played with menu
\* actions from stacks that cover the blinds ends, neither position has lost
\* more chips than the stack with which the opponent started the hand, and
\* the winner has gained no more than the winner put in -- also when a
\* player called all-in for less than the bet.
EffectiveStackBound ==
    (off_menu = 0 /\ overflows = 0 /\ BlindsCovered(current_hand)) =>
        \A action \in ActionInputs : \A b \in BuildsNow :
            LET h == current_hand
                r == Hand_submit_action(h, action, b)
            IN  (r.ret.kind = "Ok" /\ Len(r.ret.hand_result) = 1) =>
                  LET res == r.ret.hand_result[1]
                      btn_added == h.btn_start_stack - r.hand.btn_stack
                      bb_added == h.bb_start_stack - r.hand.bb_stack
                  IN  /\ h.btn_start_stack - res.btn_next_hand_stack
                           <= h.bb_start_stack
                      /\ h.bb_start_stack - res.bb_next_hand_stack
                           <= h.btn_start_stack
                      /\ res.btn_next_hand_stack - h.btn_start_stack
                           <= btn_added
                      /\ res.bb_next_hand_stack - h.bb_start_stack
                           <= bb_added

\* C31: a Call that answers a Raise closes the betting round.  On every
\* street played with menu actions, an accepted Call returns BettingOpen only
\* as the limp, the first action of the Button after the two blinds on
\* Preflop; every other Call -- the Button's call of a raise of the BigBlind
\* included, whatever the amount the call is capped to -- returns
\* BettingClosed.
CallOfRaiseCloses ==
    off_menu = 0 =>
        \A s \in StreetsAfterBlinds : \A a \in StreetAmounts :
        \A b \in BuildsNow :
            LET r == Street_submit_action(s, Call(a), b)
            IN  /\ r.result = "BettingOpen" =>
                      /\ s.street = "Preflop"
                      /\ Len(s.actions) = 2
                      /\ get_street_status(s).active = "Button"
                /\ (/\ r.result \notin {"Invalid action", "Panic"}
                    /\ Len(s.actions) > 0
                    /\ Last(s.actions).kind = "Raise") =>
                      r.result = "BettingClosed"

\* task c waits for the write lock of the client table, which d holds, while
\* d waits for the write lock of the game table, which c holds
WaitForEachOther(c, d) ==
    /\ pc[c] \in {"broadcast_state", "broadcast_result"}
    /\ games_lock = {c}
    /\ pc[d] = "lock_games"
    /\ clients_lock = {d}

\* C32: the message handlers do not deadlock.  No two client_msg tasks ever
\* wait for each other on the lock of the client table and the lock of the
\* game table, so a task that waits for a lock waits for a holder that can
\* go on to release it.
NoDeadlock ==
    \A c \in Clients : \A d \in Clients : ~WaitForEachOther(c, d)

\* C33: no client is sent hole cards of another seat while the hand is in
\* progress.  Every state snapshot that is sent shows to each client it goes
\* to only the hole cards of the position the client's seat holds: the
\* broadcast that follows an action is rendered for each recipient.
OwnCardsDelivered ==
    (sent.state # <<>> /\ sent.answer # "Err") =>
        \A c \in sent.to :
            LET s == sent.state[1]
            IN  /\ c = s.button_seat => s.bb_hole_cards = <<>>
                /\ c # s.button_seat => s.btn_hole_cards = <<>>

\* C34: creating a game under an id that is registered never replaces the
\* game that is there.  Of the create_game requests that name one id at most
\* one is answered "created" -- the others get the "already exists" reply --
\* also when the requests run concurrently, so the game registered first and
\* its hand in progress survive.
CreateNeverReplaces ==
    \A r1 \in CreateRequests : \A r2 \in CreateRequests :
        (/\ r1 # r2
         /\ create_body[r1].id = create_body[r2].id
         /\ create_reply[r1] = "created")
        => create_reply[r2] # "created"

\* no Raise among the actions of street s is below the larger contribution
\* that was there before it
RaisesAboveContribution(s) ==
    \A k \in 1..Len(s.actions) :
        s.actions[k].kind = "Raise" =>
            LET before == get_street_status(Prefix(s, k - 1))
            IN  s.actions[k].amount >= Max(before.btn, before.bb)

\* C35: no unsigned underflow.  In every state reached by accepted actions,
\* on every street of the hand the contribution of each position is at most
\* the stack with which the position started the street, and every Raise is
\* at least the larger contribution before it, so that start_stack -
\* contribution and raise_amount - prior_contribution stay at or above 0.
NoUnderflow ==
    ret.kind # "Panic" =>
        \A i \in 1..Len(current_hand.streets) :
            LET s == current_hand.streets[i]
                st == get_street_status(s)
            IN  /\ st.btn <= s.btn_start_stack
                /\ st.bb <= s.bb_start_stack
                /\ RaisesAboveContribution(s)

\* C36: every Bet(min, max) and Raise(min, max) on the menu has min <= max.
\* While a hand whose stacks cover the blinds is played with menu actions,
\* every Bet or Raise the menu of the current street offers has an amount
\* that submit_action accepts, the maximum among them.
OfferedRangesNonEmpty ==
    (off_menu = 0 /\ overflows = 0 /\ hands_dealt = 1
        /\ BlindsCovered(current_hand)) =>
        \A o \in MenuSet(CurrentStreet) :
            o.kind \in {"Bet", "Raise"} =>
                /\ o.min <= o.max
                /\ is_valid_action(CurrentStreet,
                                   [kind |-> o.kind, amount |-> o.max])

\* C37: the chips on the table are constant.  The two next-hand stacks of
\* every HandResult sum to the two stacks with which the hand started, and
\* the stacks with which every hand of the session starts sum to the stacks
\* the session was created with.
TableTotalConstant ==
    /\ current_hand.btn_start_stack + current_hand.bb_start_stack
         = TestBtnStack + TestBbStack
    /\ Len(ret.hand_result) = 1 =>
          ret.hand_result[1].btn_next_hand_stack
            + ret.hand_result[1].bb_next_hand_stack
              = TestBtnStack + TestBbStack
    /\ \A action \in TestInputs : \A b \in BuildsNow :
          LET h == current_hand
              r == Hand_submit_action(h, action, b)
          IN  (r.ret.kind = "Ok" /\ Len(r.ret.hand_result) = 1) =>
                  r.ret.hand_result[1].btn_next_hand_stack
                    + r.ret.hand_result[1].bb_next_hand_stack
                      = h.btn_start_stack + h.bb_start_stack

\* the third hand of the session has been dealt after a hand that a player
\* won: the stacks are no longer the ones the session was created with
TableTotalConstantWitness ==
    /\ hands_dealt = 3
    /\ Len(ret.hand_result) = 1
    /\ ret.hand_result[1].winner # "None"
    /\ current_hand.btn_start_stack \notin {TestBtnStack, TestBbStack}
    /\ current_hand.bb_start_stack \notin {TestBtnStack, TestBbStack}

\* C38: a round closes with the bets matched.  Whenever Street::submit_action
\* returns BettingClosed, the two contributions of the street are equal or
\* the position with the smaller contribution has no chips left.
ClosedMeansMatched ==
    \A s \in OpenStreets : \A action \in StreetInputs : \A b \in BuildsNow :
        LET r == Street_submit_action(s, action, b)
            after == get_street_status(r.street)
        IN  r.result = "BettingClosed" =>
                \/ after.btn = after.bb
                \/ after.btn < after.bb /\ r.street.btn_stack = 0
                \/ after.bb < after.btn /\ r.street.bb_stack = 0

\* whether action, submitted to street s, is one of the two blinds, the
\* limp of the Button or the first check of the street
OpeningMove(s, action) ==
    \/ /\ action.kind = "PostBlind"
       /\ s.street = "Preflop"
       /\ Len(s.actions) < 2
    \/ /\ action.kind = "Call"
       /\ s.street = "Preflop"
       /\ Len(s.actions) = 2
       /\ get_street_status(s).active = "Button"
    \/ /\ action.kind = "Check"
       /\ \A i \in 1..Len(s.actions) : s.actions[i].kind # "Check"

\* the larger of the two contributions of street s
LargerContribution(s) ==
    Max(get_street_status(s).btn, get_street_status(s).bb)

\* C39: bounded streets.  Every action a street accepts and answers with
\* BettingOpen is one of the two blinds, the limp or the first check of the
\* street, or leaves the larger contribution strictly above what it was, so
\* that with fixed stacks only a bounded number of actions keeps a street
\* open.
OpenActionsMakeProgress ==
    \A s \in OpenStreets : \A action \in StreetInputs : \A b \in BuildsNow :
        LET r == Street_submit_action(s, action, b)
        IN  r.result = "BettingOpen" =>
                \/ OpeningMove(s, action)
                \/ LargerContribution(r.street) > LargerContribution(s)
====
